---------------------------- MODULE Spec2Model ----------------------------
(***************************************************************************)
(* A model of the stock_pick screening pipeline: the bulk pre-filter       *)
(* (src/src/data/bulk_fetcher.py), the technical evaluator                 *)
(* (src/src/analysis/technical.py) and the sector-relative scorer          *)
(* (src/src/analysis/scoring.py), for one ticker at a time; then the       *)
(* operations on many tickers: the ranking, filtering and selection of     *)
(* scored records, the batched bulk fetch, the deep-scoring worker pool    *)
(* of src/main.py, the market configuration (src/src/config) and the gem   *)
(* score.                                                                  *)
(*                                                                         *)
(* Numbers.  Every real-valued metric (ratios, percentages, prices) is a   *)
(* fixed-point integer in hundredths: 1.5 is 150, 18 is 1800, the provider *)
(* fraction 0.12 is 12 and, once scaled by 100 as the code does, 1200.     *)
(* Market capitalisation is in millions of currency units and volume in    *)
(* shares, both plain integers.  Arithmetic is exact (rational); the       *)
(* binary floating point rounding of the Python code is not modelled.      *)
(*                                                                         *)
(* Optional values.  A provider key is "absent" (not in the dictionary),   *)
(* "none" (present with the value None) or "num" (a number).               *)
(***************************************************************************)
EXTENDS Integers, Sequences, FiniteSets, TLC

VARIABLES
    info,        \* the provider's info dictionary for the ticker (yf.Ticker(t).info)
    hist,        \* the provider's price history for the ticker, by its summary
    filters,     \* name of the filter configuration handed to apply_filters
    benchmarks,  \* name of the sector benchmark table the scorer was built with
    fetched,     \* _fetch_single: "pending", "nodata" (returned None) or "ok"
    data,        \* the basic_data record _fetch_single returned
    checked,     \* whether _check_filters has run on data
    reason,      \* what _check_filters returned (NoReason is Python's None)
    analysed,    \* TechnicalAnalyzer.analyze: "pending", "nodata" or "ok"
    technical,   \* the record TechnicalAnalyzer.analyze returned
    techScored,  \* whether get_technical_score has run on technical
    techScore,   \* its result, as the pair of points achieved and available
    scored,      \* score_stock: "pending", "nodata" (returned None) or "ok"
    result,      \* the record score_stock returned
    stocks,      \* a list of scored records, as a caller holds it
    call,        \* the call made on stocks: its name and arguments
    out,         \* the list that call returned
    tickers,     \* fetch_basic_fundamentals: the list of tickers to fetch
    provider,    \* the provider's info of every symbol
    batchSize,   \* batch_size
    batchStart,  \* the loop variable i: the tickers before it are dealt with
    task,        \* the state of the fetch task of every position of tickers
    batchResults,\* the results dictionary of _fetch_batch
    results,     \* the results dictionary of fetch_basic_fundamentals
    failed,      \* the failed list of fetch_basic_fundamentals
    fetchPc,     \* "loop" (between batches), "batch" or "returned"
    feeds,       \* the provider's data of every ticker submitted to the pool
    work,        \* the score_stock task of every submitted ticker
    analyzed,    \* main(): analyzed_stocks
    failedCount, \* main(): failed_count
    market,      \* main(): args.market
    config,      \* what get_market_config(market) gave
    scorer,      \* "none", or "built" once StockScorer(...) has returned
    gem,         \* what _simple_gem_score returned for the fetched record
    sieve,       \* apply_filters: its argument, its position and its locals
    run,         \* main(): its arguments, its position and its locals
    api,         \* YahooFinanceClient.screen_stocks: its position and its locals
    screening    \* a screener's screen_stocks: its object, position and locals

\* the variables of one ticker's evaluation
tickerVars == << info, hist, filters, benchmarks, fetched, data, checked, reason,
                analysed, technical, techScored, techScore, scored, result >>

\* the variables of the operations on lists of scored records
listVars == << stocks, call, out >>

\* the variables of the bulk fetch
fetchVars == << tickers, provider, batchSize, batchStart, task, batchResults,
               results, failed, fetchPc >>

\* the variables of the deep-scoring worker pool
poolVars == << feeds, work, analyzed, failedCount >>

\* the variables of the configuration
configVars == << market, config, scorer >>

\* the variables the evaluation of one ticker leaves alone
\* the variables of the calls and runs that work on many tickers
runVars == << sieve, run, api, screening >>

aggregateVars == << listVars, fetchVars, poolVars, configVars, gem, runVars >>

vars == << tickerVars, aggregateVars >>

-----------------------------------------------------------------------------
(* Optional numbers *)

Absent == [k |-> "absent", v |-> 0]
None == [k |-> "none", v |-> 0]
Num(n) == [k |-> "num", v |-> n]

\* a ratio v/d with d > 0 (the PEG ratio, which the code may compute as pe / growth)
Rat(n, den) == [k |-> "num", v |-> n, d |-> den]
NoneRat == [k |-> "none", v |-> 0, d |-> 1]

IsNum(x) == x.k = "num"
\* Python truthiness of an optional number: None and 0 are falsy
Truthy(x) == x.k = "num" /\ x.v # 0

\* dict.get(key): None when the key is absent
Get(d, key) == IF d[key].k = "absent" THEN None ELSE d[key]
\* dict.get(key, 0)
Get0(d, key) == IF d[key].k = "absent" THEN Num(0) ELSE d[key]

\* the scale of the fixed-point numbers, and the factor of the code's
\* fraction-to-percent conversion
PCT == 100

-----------------------------------------------------------------------------
(* Filter configurations: US_FILTERS and INDIA_FILTERS of the configuration   *)
(* modules, the empty configuration (every threshold at its .get default)     *)
(* and a caller-supplied one that leaves keys out and names sector lists.     *)

US_FILTERS ==
    [ market_cap_min |-> 100, market_cap_max |-> 100000, volume_min |-> 100000,
      peg_ratio_max |-> 200, pe_ratio_max_fallback |-> 2500, pe_ratio_min |-> 100,
      roe_min |-> 800, debt_to_equity_max |-> 200, current_ratio_min |-> 80,
      profit_margin_min |-> 200, revenue_growth_min |-> -1000,
      earnings_growth_min |-> -1000, operating_margin_min |-> 500,
      sectors_include |-> {}, sectors_exclude |-> {} ]

INDIA_FILTERS ==
    [ market_cap_min |-> 500, market_cap_max |-> 50000000, volume_min |-> 50000,
      peg_ratio_max |-> 200, pe_ratio_max_fallback |-> 3000, pe_ratio_min |-> 100,
      roe_min |-> 800, debt_to_equity_max |-> 300, current_ratio_min |-> 50,
      profit_margin_min |-> 100, revenue_growth_min |-> -2000,
      earnings_growth_min |-> -2000, operating_margin_min |-> 300,
      sectors_include |-> {}, sectors_exclude |-> {} ]

CUSTOM_FILTERS ==
    [ market_cap_min |-> 100, peg_ratio_max |-> 100, roe_min |-> 1500,
      sectors_include |-> {"Technology", "Energy", "Utilities"},
      sectors_exclude |-> {"Energy"} ]

FilterNames == {"US", "INDIA", "EMPTY", "CUSTOM"}

FilterTable(name) ==
    CASE name = "US" -> US_FILTERS
      [] name = "INDIA" -> INDIA_FILTERS
      [] name = "CUSTOM" -> CUSTOM_FILTERS
      [] OTHER -> << >>

HasKey(f, key) == key \in DOMAIN f
\* filters.get(key, default)
FGet(f, key, default) == IF key \in DOMAIN f THEN f[key] ELSE default
\* x > filters.get(key, float('inf'))
AboveMax(x, f, key) == (key \in DOMAIN f) /\ x > f[key]

-----------------------------------------------------------------------------
(* BulkFetcher._fetch_single *)

MetricKeys ==
    { "marketCap", "volume", "averageVolume", "trailingPE", "pegRatio",
      "returnOnEquity", "profitMargins", "operatingMargins", "revenueGrowth",
      "earningsGrowth", "debtToEquity", "currentRatio" }

\* len(info): the keys the model names that are present, and the others
InfoLen(i) ==
    Cardinality({key \in MetricKeys \cup {"sector"} : i[key].k # "absent"})
        + i["others"].v

\* the near-empty limit of _fetch_single
MinInfoKeys == 5

\* basic_data[key] * 100 for the percentage keys
ToPercent(x) == IF x.k = "num" THEN Num(x.v * PCT) ELSE x

\* 'peg_ratio': info.get('pegRatio'), then the manual PEG when that is falsy
FetchPeg(i) ==
    LET peg == Get(i, "pegRatio")
        pe == Get(i, "trailingPE")
        earnings_growth == ToPercent(Get(i, "earningsGrowth"))
    IN IF ~Truthy(peg) /\ Truthy(pe) /\ Truthy(earnings_growth)
              /\ earnings_growth.v > 0
       THEN Rat(pe.v, earnings_growth.v)
       ELSE IF peg.k = "num" THEN Rat(peg.v, PCT) ELSE NoneRat

BasicData(i) ==
    [ sector |-> IF i["sector"].k = "absent" THEN "Unknown" ELSE i["sector"].v,
      market_cap |-> Get0(i, "marketCap"),
      volume |-> Get0(i, "volume"),
      avg_volume |-> Get0(i, "averageVolume"),
      pe_ratio |-> Get(i, "trailingPE"),
      peg_ratio |-> FetchPeg(i),
      roe |-> ToPercent(Get(i, "returnOnEquity")),
      profit_margin |-> ToPercent(Get(i, "profitMargins")),
      operating_margin |-> ToPercent(Get(i, "operatingMargins")),
      revenue_growth |-> ToPercent(Get(i, "revenueGrowth")),
      earnings_growth |-> ToPercent(Get(i, "earningsGrowth")),
      debt_to_equity |-> Get(i, "debtToEquity"),
      current_ratio |-> Get(i, "currentRatio") ]

\* the record data holds while nothing is fetched
NoData ==
    [ sector |-> "Unknown", market_cap |-> None, volume |-> None,
      avg_volume |-> None, pe_ratio |-> None, peg_ratio |-> NoneRat,
      roe |-> None, profit_margin |-> None, operating_margin |-> None,
      revenue_growth |-> None, earnings_growth |-> None,
      debt_to_equity |-> None, current_ratio |-> None ]

\* whether _fetch_single returns a record: a provider call that raises, an empty
\* info or one with fewer than 5 keys gives None
FetchSucceeds(i) == i["raises"].v = 0 /\ ~(InfoLen(i) < MinInfoKeys)

-----------------------------------------------------------------------------
(* BulkFetcher._check_filters *)

NoReason == "None"
TypeError == "TypeError"

\* the gate without its computed-PEG step
GateWithoutComputedPeg(d, f) ==
    LET peg == d.peg_ratio
        pe == d.pe_ratio
    IN IF peg.k = "num" /\ peg.v > 0
       THEN IF HasKey(f, "peg_ratio_max") /\ peg.v * PCT > f.peg_ratio_max * peg.d
            THEN "peg_too_high" ELSE NoReason
       ELSE IF Truthy(pe) /\ pe.v > 0
       THEN IF pe.v > FGet(f, "pe_ratio_max_fallback", 2500)
            THEN "pe_too_high_fallback" ELSE NoReason
       ELSE NoReason

\* the three-way valuation gate: the reason it fails with, or NoReason
ValuationGate(d, f) ==
    LET peg == d.peg_ratio
        pe == d.pe_ratio
        earnings_growth == d.earnings_growth
    IN IF peg.k = "num" /\ peg.v > 0
       THEN IF HasKey(f, "peg_ratio_max") /\ peg.v * PCT > f.peg_ratio_max * peg.d
            THEN "peg_too_high" ELSE NoReason
       ELSE IF Truthy(pe) /\ Truthy(earnings_growth) /\ pe.v > 0
                  /\ earnings_growth.v > 0
       THEN IF HasKey(f, "peg_ratio_max")
                  /\ pe.v * PCT > f.peg_ratio_max * earnings_growth.v
            THEN "calculated_peg_too_high" ELSE NoReason
       ELSE IF Truthy(pe) /\ pe.v > 0
       THEN IF pe.v > FGet(f, "pe_ratio_max_fallback", 2500)
            THEN "pe_too_high_fallback" ELSE NoReason
       ELSE NoReason

\* the checks after the valuation gate, none of which compares a None
LaterChecks(d, f) ==
    IF d.pe_ratio.k = "num" /\ d.pe_ratio.v < FGet(f, "pe_ratio_min", 0)
    THEN "negative_or_low_earnings"
    ELSE IF d.roe.k = "num" /\ d.roe.v < FGet(f, "roe_min", 0)
    THEN "roe_too_low"
    ELSE IF d.debt_to_equity.k = "num"
               /\ AboveMax(d.debt_to_equity.v, f, "debt_to_equity_max")
    THEN "debt_too_high"
    ELSE IF d.revenue_growth.k = "num"
               /\ d.revenue_growth.v < FGet(f, "revenue_growth_min", 0)
    THEN "revenue_growth_too_low"
    ELSE IF d.earnings_growth.k = "num"
               /\ d.earnings_growth.v < FGet(f, "earnings_growth_min", 0)
    THEN "earnings_growth_too_low"
    ELSE IF d.current_ratio.k = "num"
               /\ d.current_ratio.v < FGet(f, "current_ratio_min", 0)
    THEN "current_ratio_too_low"
    ELSE IF d.profit_margin.k = "num"
               /\ d.profit_margin.v < FGet(f, "profit_margin_min", 0)
    THEN "profit_margin_too_low"
    ELSE IF d.operating_margin.k = "num"
               /\ d.operating_margin.v < FGet(f, "operating_margin_min", 0)
    THEN "operating_margin_too_low"
    ELSE IF d.sector \in FGet(f, "sectors_exclude", {})
    THEN "sector_excluded_" \o d.sector
    ELSE IF FGet(f, "sectors_include", {}) # {}
               /\ d.sector \notin FGet(f, "sectors_include", {})
    THEN "sector_not_included"
    ELSE NoReason

\* volume = data.get('avg_volume') or data.get('volume', 0)
FilterVolume(d) == IF Truthy(d.avg_volume) THEN d.avg_volume ELSE d.volume

\* The whole function.  Comparing None with a number raises TypeError, which
\* neither _check_filters nor apply_filters catches.
CheckFilters(d, f) ==
    IF d.market_cap.k = "none" THEN TypeError
    ELSE IF d.market_cap.v < FGet(f, "market_cap_min", 0) THEN "market_cap_too_low"
    ELSE IF AboveMax(d.market_cap.v, f, "market_cap_max") THEN "market_cap_too_high"
    ELSE IF FilterVolume(d).k = "none" THEN TypeError
    ELSE IF FilterVolume(d).v < FGet(f, "volume_min", 0) THEN "volume_too_low"
    ELSE IF ValuationGate(d, f) # NoReason THEN ValuationGate(d, f)
    ELSE LaterChecks(d, f)

-----------------------------------------------------------------------------
(* TechnicalAnalyzer.  A price history is given by what the indicators read  *)
(* from it: the number of bars, the last close, the mean of the last 50 and  *)
(* of the last 200 closes, the value the RSI formula yields and the close    *)
(* 63 bars before the end.  status "error" is a provider call that raises.   *)
(* The indicators no score reads (EMA, MACD, ATR, volatility, the 1 and 6    *)
(* month returns, volume trend, support, resistance, trend strength) are     *)
(* left out of the record.                                                   *)

MinBars == 50
ShortWindow == 50
LongWindow == 200
ReturnDays == 63

NaN == [k |-> "nan", v |-> 0]
NoneTrend == "unknown"

\* _calculate_sma(hist, period)
CalculateSma(h, period) ==
    IF h.n >= period
    THEN Num(IF period = ShortWindow THEN h.mean50 ELSE h.mean200)
    ELSE None

\* _price_vs_ma(price, ma): ((price - ma) / ma) * 100, as a ratio in percent
PriceVsMa(price, ma) ==
    IF Truthy(ma) /\ ma.v > 0
    THEN Rat((price - ma.v) * 100, ma.v)
    ELSE NoneRat

\* _calculate_return(hist, days), as a ratio in percent
CalculateReturn(h, days) ==
    IF h.n < days THEN NoneRat
    ELSE Rat((h.close - h.past63) * 100, h.past63)

\* _identify_trend(hist)
IdentifyTrend(h) ==
    LET sma_50 == CalculateSma(h, ShortWindow)
        sma_200 == CalculateSma(h, LongWindow)
        current_price == h.close
    IN IF ~Truthy(sma_50) \/ ~Truthy(sma_200) THEN "unknown"
       ELSE IF current_price > sma_50.v /\ sma_50.v > sma_200.v THEN "strong_uptrend"
       ELSE IF current_price > sma_50.v THEN "uptrend"
       ELSE IF current_price < sma_50.v /\ sma_50.v < sma_200.v THEN "downtrend"
       ELSE "sideways"

\* analyze with the limit moved by one bar
AnalyzeNeedsMoreThanFifty(h) == h.status = "ok" /\ h.n # 0 /\ ~(h.n <= MinBars)

\* whether analyze returns a record: the provider call raises, the history is
\* empty or it has fewer than 50 bars
AnalyzeSucceeds(h) == h.status = "ok" /\ h.n # 0 /\ ~(h.n < MinBars)

TechnicalRecord(h) ==
    [ current_price |-> h.close,
      sma_50 |-> CalculateSma(h, ShortWindow),
      sma_200 |-> CalculateSma(h, LongWindow),
      price_vs_sma50 |-> PriceVsMa(h.close, CalculateSma(h, ShortWindow)),
      rsi |-> h.rsi,
      return_3m |-> CalculateReturn(h, ReturnDays),
      trend |-> IdentifyTrend(h) ]

NoTechnical ==
    [ current_price |-> 0, sma_50 |-> None, sma_200 |-> None,
      price_vs_sma50 |-> NoneRat, rsi |-> None, return_3m |-> NoneRat,
      trend |-> "unknown" ]

\* a ratio r = v/d (d > 0) compared with the whole number c: r > c
RatGt(r, c) == r.v > c * r.d

\* get_technical_score, indicator by indicator: << points, points available >>
TrendPoints(t) ==
    << CASE t.trend = "strong_uptrend" -> 30
         [] t.trend = "uptrend" -> 20
         [] t.trend = "sideways" -> 10
         [] OTHER -> 0,
       30 >>

RsiPoints(t) ==
    IF t.rsi.k = "none" THEN << 0, 0 >>
    ELSE IF t.rsi.k = "nan" THEN << 0, 20 >>
    ELSE IF 4000 <= t.rsi.v /\ t.rsi.v <= 6000 THEN << 20, 20 >>
    ELSE IF (3000 <= t.rsi.v /\ t.rsi.v < 4000) \/ (6000 < t.rsi.v /\ t.rsi.v <= 7000)
    THEN << 15, 20 >>
    ELSE IF t.rsi.v < 3000 THEN << 10, 20 >>
    ELSE << 0, 20 >>

\* the price against SMA50 step with limits that include their bound
PriceVsMaPointsInclusive(t) ==
    IF t.price_vs_sma50.k = "none" THEN << 0, 0 >>
    ELSE IF t.price_vs_sma50.v >= 5 * t.price_vs_sma50.d THEN << 25, 25 >>
    ELSE IF t.price_vs_sma50.v >= 0 THEN << 20, 25 >>
    ELSE IF t.price_vs_sma50.v >= -5 * t.price_vs_sma50.d THEN << 10, 25 >>
    ELSE << 0, 25 >>

PriceVsMaPoints(t) ==
    IF t.price_vs_sma50.k = "none" THEN << 0, 0 >>
    ELSE IF RatGt(t.price_vs_sma50, 5) THEN << 25, 25 >>
    ELSE IF RatGt(t.price_vs_sma50, 0) THEN << 20, 25 >>
    ELSE IF RatGt(t.price_vs_sma50, -5) THEN << 10, 25 >>
    ELSE << 0, 25 >>

MomentumPoints(t) ==
    IF t.return_3m.k = "none" THEN << 0, 0 >>
    ELSE IF RatGt(t.return_3m, 20) THEN << 25, 25 >>
    ELSE IF RatGt(t.return_3m, 10) THEN << 20, 25 >>
    ELSE IF RatGt(t.return_3m, 0) THEN << 15, 25 >>
    ELSE IF RatGt(t.return_3m, -10) THEN << 5, 25 >>
    ELSE << 0, 25 >>

\* the accumulators score and max_score at the end of get_technical_score
TechnicalPoints(t) ==
    [ score |-> TrendPoints(t)[1] + RsiPoints(t)[1] + PriceVsMaPoints(t)[1]
                    + MomentumPoints(t)[1],
      max_score |-> TrendPoints(t)[2] + RsiPoints(t)[2] + PriceVsMaPoints(t)[2]
                    + MomentumPoints(t)[2] ]

\* A score (score / max_score) * 100 is kept as the fraction [p, m], m > 0,
\* that stands for 100 * p / m.
Frac(p, m) == [p |-> p, m |-> m]

\* get_technical_score(technical), for a record (ok) or for None
GetTechnicalScore(ok, t) ==
    IF ~ok THEN Frac(0, 1)
    ELSE IF TechnicalPoints(t).max_score > 0
    THEN Frac(TechnicalPoints(t).score, TechnicalPoints(t).max_score)
    ELSE Frac(0, 1)

-----------------------------------------------------------------------------
(* FundamentalAnalyzer.analyze: the metrics the scorer reads *)

\* not info: an empty dictionary, or a provider call that raises
FundamentalsSucceed(i) == i["raises"].v = 0 /\ InfoLen(i) > 0

Fundamentals(i) ==
    [ sector |-> IF i["sector"].k = "absent" THEN "Unknown" ELSE i["sector"].v,
      market_cap |-> Get0(i, "marketCap"),
      pe_ratio |-> Get(i, "trailingPE"),
      roe |-> ToPercent(Get(i, "returnOnEquity")),
      profit_margin |-> ToPercent(Get(i, "profitMargins")),
      earnings_growth |-> ToPercent(Get(i, "earningsGrowth")),
      debt_to_equity |-> Get(i, "debtToEquity"),
      current_ratio |-> Get(i, "currentRatio") ]

NoFundamentals ==
    [ sector |-> "Unknown", market_cap |-> None, pe_ratio |-> None, roe |-> None,
      profit_margin |-> None, earnings_growth |-> None, debt_to_equity |-> None,
      current_ratio |-> None ]

-----------------------------------------------------------------------------
(* SECTOR_BENCHMARKS of settings.py; weights in hundredths *)

Bench(pe, roe, de, margin, growth, wg, wp, wv) ==
    [ typical_pe |-> pe, typical_roe |-> roe, typical_debt_equity |-> de,
      typical_profit_margin |-> margin, growth_focused |-> growth,
      weights |-> [growth |-> wg, profitability |-> wp, valuation |-> wv] ]

SECTOR_BENCHMARKS ==
    [ s \in { "Technology", "Financial Services", "Healthcare", "Consumer Cyclical",
              "Consumer Defensive", "Industrials", "Energy", "Utilities",
              "Real Estate", "Communication Services", "Basic Materials",
              "Default" } |->
      CASE s = "Technology" -> Bench(3000, 2000, 50, 2000, TRUE, 40, 35, 25)
        [] s = "Financial Services" -> Bench(1200, 1200, 500, 2500, FALSE, 20, 50, 30)
        [] s = "Healthcare" -> Bench(2500, 1500, 80, 1500, TRUE, 35, 35, 30)
        [] s = "Consumer Cyclical" -> Bench(2000, 1500, 120, 800, FALSE, 30, 35, 35)
        [] s = "Consumer Defensive" -> Bench(2200, 1800, 100, 1000, FALSE, 25, 40, 35)
        [] s = "Industrials" -> Bench(1800, 1200, 150, 800, FALSE, 30, 35, 35)
        [] s = "Energy" -> Bench(1500, 1000, 100, 500, FALSE, 25, 35, 40)
        [] s = "Utilities" -> Bench(1800, 800, 250, 1200, FALSE, 15, 35, 50)
        [] s = "Real Estate" -> Bench(3000, 600, 300, 2500, FALSE, 20, 30, 50)
        [] s = "Communication Services" -> Bench(2000, 1200, 150, 1500, TRUE, 35, 35, 30)
        [] s = "Basic Materials" -> Bench(1500, 1000, 120, 1000, FALSE, 25, 35, 40)
        [] OTHER -> Bench(2000, 1500, 100, 1000, FALSE, 30, 35, 35) ]

\* SECTOR_BENCHMARKS edited so that the weights of Technology sum to 1.10
SKEWED_BENCHMARKS ==
    [SECTOR_BENCHMARKS EXCEPT !["Technology"] = Bench(3000, 2000, 50, 2000, TRUE, 50, 35, 25)]

\* what the .get defaults of the scoring methods give for an empty benchmark {}
EmptyBenchmark == Bench(2000, 1500, 100, 1000, FALSE, 30, 35, 35)

BenchmarkNames == {"SECTOR_BENCHMARKS", "NONE"}

\* self.sector_benchmarks: the table handed to StockScorer, or {} for None
BenchmarkTable(name) ==
    CASE name = "SECTOR_BENCHMARKS" -> SECTOR_BENCHMARKS
      [] name = "SKEWED_BENCHMARKS" -> SKEWED_BENCHMARKS
      [] OTHER -> << >>

\* _get_sector_benchmark(sector), with the .get defaults filled in
GetSectorBenchmark(tbl, sector) ==
    IF sector \in DOMAIN tbl THEN tbl[sector]
    ELSE IF "Default" \in DOMAIN tbl THEN tbl["Default"]
    ELSE EmptyBenchmark

-----------------------------------------------------------------------------
(* StockScorer._calculate_valuation_score_sector_relative, metric by metric: *)
(* << points, points available >>                                            *)

ValPE(f, b) ==
    LET pe == f.pe_ratio
    IN IF pe.k = "num" /\ pe.v > 0
       THEN IF pe.v * 100 < 80 * b.typical_pe THEN << 25, 25 >>
            ELSE IF pe.v * 100 < 100 * b.typical_pe THEN << 20, 25 >>
            ELSE IF pe.v * 100 < 120 * b.typical_pe THEN << 15, 25 >>
            ELSE IF pe.v * 100 < 150 * b.typical_pe THEN << 10, 25 >>
            ELSE << 5, 25 >>
       ELSE << 0, 0 >>

ValROE(f, b) ==
    LET roe == f.roe
        \* roe_ratio = roe / typical_roe if typical_roe > 0 else 0, times typical_roe
        n == IF b.typical_roe > 0 THEN roe.v ELSE 0
        t == IF b.typical_roe > 0 THEN b.typical_roe ELSE 1
    IN IF roe.k = "num" /\ roe.v >= 0
       THEN IF n * 100 > 150 * t THEN << 25, 25 >>
            ELSE IF n * 100 > 120 * t THEN << 20, 25 >>
            ELSE IF n * 100 > 80 * t THEN << 15, 25 >>
            ELSE IF n * 100 > 50 * t THEN << 10, 25 >>
            ELSE << 5, 25 >>
       ELSE << 0, 0 >>

ValDE(f, b) ==
    LET de == f.debt_to_equity
    IN IF de.k = "num"
       THEN IF de.v * 100 < b.typical_debt_equity * 50 THEN << 20, 20 >>
            ELSE IF de.v * 100 < b.typical_debt_equity * 80 THEN << 16, 20 >>
            ELSE IF de.v * 100 < b.typical_debt_equity * 120 THEN << 12, 20 >>
            ELSE IF de.v * 100 < b.typical_debt_equity * 200 THEN << 8, 20 >>
            ELSE << 4, 20 >>
       ELSE << 0, 0 >>

ValGrowth(f, b) ==
    LET earnings_growth == f.earnings_growth
    IN IF earnings_growth.k = "num"
       THEN IF b.growth_focused
            THEN IF earnings_growth.v > 2000 THEN << 20, 20 >>
                 ELSE IF earnings_growth.v > 1500 THEN << 16, 20 >>
                 ELSE IF earnings_growth.v > 1000 THEN << 12, 20 >>
                 ELSE IF earnings_growth.v > 500 THEN << 8, 20 >>
                 ELSE << 4, 20 >>
            ELSE IF earnings_growth.v > 1500 THEN << 20, 20 >>
                 ELSE IF earnings_growth.v > 1000 THEN << 16, 20 >>
                 ELSE IF earnings_growth.v > 500 THEN << 14, 20 >>
                 ELSE IF earnings_growth.v > 0 THEN << 12, 20 >>
                 ELSE << 8, 20 >>
       ELSE << 0, 0 >>

\* the profit margin step of the valuation score with no points in its lowest band
ValMarginZeroBand(f, b) ==
    LET margin == f.profit_margin
    IN IF margin.k = "num" /\ b.typical_profit_margin > 0
       THEN IF margin.v * 100 > 150 * b.typical_profit_margin THEN << 10, 10 >>
            ELSE IF margin.v * 100 > 100 * b.typical_profit_margin THEN << 8, 10 >>
            ELSE IF margin.v * 100 > 70 * b.typical_profit_margin THEN << 6, 10 >>
            ELSE << 0, 10 >>
       ELSE << 0, 0 >>

ValMargin(f, b) ==
    LET margin == f.profit_margin
    IN IF margin.k = "num" /\ b.typical_profit_margin > 0
       THEN IF margin.v * 100 > 150 * b.typical_profit_margin THEN << 10, 10 >>
            ELSE IF margin.v * 100 > 100 * b.typical_profit_margin THEN << 8, 10 >>
            ELSE IF margin.v * 100 > 70 * b.typical_profit_margin THEN << 6, 10 >>
            ELSE << 4, 10 >>
       ELSE << 0, 0 >>

\* the accumulators score and max_score of the valuation score
ValuationPoints(f, b) ==
    [ score |-> ValPE(f, b)[1] + ValROE(f, b)[1] + ValDE(f, b)[1]
                    + ValGrowth(f, b)[1] + ValMargin(f, b)[1],
      max_score |-> ValPE(f, b)[2] + ValROE(f, b)[2] + ValDE(f, b)[2]
                    + ValGrowth(f, b)[2] + ValMargin(f, b)[2] ]

\* (score / max_score) * 100, or the default 50 when nothing was scored
ScoreOrDefault(pts) ==
    IF pts.max_score > 0 THEN Frac(pts.score, pts.max_score) ELSE Frac(1, 2)

ValuationScore(f, b) == ScoreOrDefault(ValuationPoints(f, b))

-----------------------------------------------------------------------------
(* StockScorer._calculate_quality_score_sector_relative *)

QualMargin(f, b) ==
    LET profit_margin == f.profit_margin
        typical_margin == b.typical_profit_margin
    IN IF profit_margin.k = "num"
       THEN IF profit_margin.v * 100 > typical_margin * 130 THEN << 30, 30 >>
            ELSE IF profit_margin.v > typical_margin THEN << 24, 30 >>
            ELSE IF profit_margin.v * 100 > typical_margin * 70 THEN << 18, 30 >>
            ELSE IF profit_margin.v > 0 THEN << 12, 30 >>
            ELSE << 6, 30 >>
       ELSE << 0, 0 >>

\* the ROE step of the quality score when an absent ROE is read as 0
QualROEAbsentAsZero(f, b) ==
    LET roe == IF f.roe.k = "num" THEN f.roe.v ELSE 0
        typical_roe == b.typical_roe
    IN IF roe * 100 > typical_roe * 150 THEN << 30, 30 >>
       ELSE IF roe > typical_roe THEN << 24, 30 >>
       ELSE IF roe * 100 > typical_roe * 70 THEN << 18, 30 >>
       ELSE IF roe > 0 THEN << 12, 30 >>
       ELSE << 0, 30 >>

QualROE(f, b) ==
    LET roe == f.roe
        typical_roe == b.typical_roe
    IN IF roe.k = "num"
       THEN IF roe.v * 100 > typical_roe * 150 THEN << 30, 30 >>
            ELSE IF roe.v > typical_roe THEN << 24, 30 >>
            ELSE IF roe.v * 100 > typical_roe * 70 THEN << 18, 30 >>
            ELSE IF roe.v > 0 THEN << 12, 30 >>
            ELSE << 0, 30 >>
       ELSE << 0, 0 >>

QualDE(f, b) ==
    LET de == f.debt_to_equity
        typical_de == b.typical_debt_equity
    IN IF de.k = "num"
       THEN IF de.v < typical_de THEN << 20, 20 >>
            ELSE IF de.v * 100 < typical_de * 150 THEN << 16, 20 >>
            ELSE IF de.v * 100 < typical_de * 200 THEN << 12, 20 >>
            ELSE << 8, 20 >>
       ELSE << 0, 0 >>

QualCurrent(f, b) ==
    LET current_ratio == f.current_ratio
    IN IF current_ratio.k = "num" /\ current_ratio.v > 0
       THEN IF current_ratio.v > 200 THEN << 20, 20 >>
            ELSE IF current_ratio.v > 150 THEN << 16, 20 >>
            ELSE IF current_ratio.v > 100 THEN << 12, 20 >>
            ELSE << 8, 20 >>
       ELSE << 0, 0 >>

QualityPoints(f, b) ==
    [ score |-> QualMargin(f, b)[1] + QualROE(f, b)[1] + QualDE(f, b)[1]
                    + QualCurrent(f, b)[1],
      max_score |-> QualMargin(f, b)[2] + QualROE(f, b)[2] + QualDE(f, b)[2]
                    + QualCurrent(f, b)[2] ]

QualityScore(f, b) == ScoreOrDefault(QualityPoints(f, b))

-----------------------------------------------------------------------------
(* StockScorer._calculate_composite_score and _determine_action *)

\* the composite without the quality term
CompositeWithoutQuality(valuation, quality, tech, b) ==
    [ n |-> b.weights.valuation * valuation.p * quality.m * tech.m
              + b.weights.growth * tech.p * valuation.m * quality.m,
      d |-> valuation.m * quality.m * tech.m ]

\* The composite of three scores 100 * p / m is
\*   (wv * 100pv/mv + wq * 100pq/mq + wg * 100pt/mt) / 100
\* with the weights in hundredths; it is kept as the ratio n / d.
CompositeScore(valuation, quality, tech, b) ==
    [ n |-> b.weights.valuation * valuation.p * quality.m * tech.m
              + b.weights.profitability * quality.p * valuation.m * tech.m
              + b.weights.growth * tech.p * valuation.m * quality.m,
      d |-> valuation.m * quality.m * tech.m ]

\* composite_score >= c, for a whole number c
AtLeast(composite, c) == composite.n >= c * composite.d

DetermineAction(composite) ==
    IF AtLeast(composite, 75) THEN "STRONG_BUY"
    ELSE IF AtLeast(composite, 65) THEN "BUY"
    ELSE IF AtLeast(composite, 50) THEN "SPECULATIVE"
    ELSE "AVOID"

\* round(composite_score, 2) as score_stock stores it, in hundredths: the
\* nearest hundredth of n / d, a tie going to the even one
Round2(composite) ==
    LET whole == composite.n \div composite.d
        rest == 100 * (composite.n % composite.d)
        h == rest \div composite.d
        r == rest % composite.d
    IN 100 * whole + h
         + (IF 2 * r > composite.d \/ (2 * r = composite.d /\ h % 2 = 1) THEN 1 ELSE 0)

\* a tier that valuation and technical minimums gate
GatedAction(valuation, tech, composite) ==
    IF AtLeast(composite, 75) /\ 100 * valuation.p >= 60 * valuation.m
           /\ 100 * tech.p >= 60 * tech.m
    THEN "STRONG_BUY"
    ELSE IF AtLeast(composite, 65) THEN "BUY"
    ELSE IF AtLeast(composite, 50) THEN "SPECULATIVE"
    ELSE "AVOID"

\* score_stock: action = self._determine_action(composite_score); the sub-scores
\* are in scope there and are not handed on
ScoreAction(valuation, tech, composite) == DetermineAction(composite)

\* a scorer that goes on with defaulted technicals when the technical analysis
\* returned nothing
ScoreWithoutTechnicals(i, h) == FundamentalsSucceed(i)

\* whether score_stock returns a record:
\* if not fundamentals: return None; if not technicals: return None
ScoreSucceeds(i, h) == FundamentalsSucceed(i) /\ AnalyzeSucceeds(h)

ScoreRecord(i, h, tbl) ==
    LET fundamentals == Fundamentals(i)
        technicals == TechnicalRecord(h)
        sector == fundamentals.sector
        b == GetSectorBenchmark(tbl, sector)
        valuation_score == ValuationScore(fundamentals, b)
        fundamental_quality_score == QualityScore(fundamentals, b)
        technical_score == GetTechnicalScore(TRUE, technicals)
        composite_score ==
            CompositeScore(valuation_score, fundamental_quality_score,
                           technical_score, b)
    IN [ sector |-> sector,
         valuation_score |-> valuation_score,
         fundamental_score |-> fundamental_quality_score,
         technical_score |-> technical_score,
         composite_score |-> composite_score,
         action |-> ScoreAction(valuation_score, technical_score, composite_score),
         fundamentals |-> fundamentals,
         technicals |-> technicals ]

NoResult ==
    [ sector |-> "Unknown", valuation_score |-> Frac(0, 1),
      fundamental_score |-> Frac(0, 1), technical_score |-> Frac(0, 1),
      composite_score |-> [n |-> 0, d |-> 1], action |-> "AVOID",
      fundamentals |-> NoFundamentals, technicals |-> NoTechnical ]

-----------------------------------------------------------------------------
(* The provider's data: the inputs of the model *)

Str(s) == [k |-> "str", v |-> s]
AbsentStr == [k |-> "absent", v |-> ""]

InfoKeys == MetricKeys \cup {"sector", "others", "raises"}

\* the values the provider may give each key
InfoValues(key) ==
    CASE key = "marketCap" -> {Absent, None, Num(50), Num(5000), Num(200000)}
      [] key = "volume" -> {Absent, None, Num(10), Num(200000)}
      [] key = "averageVolume" -> {Absent, None, Num(0), Num(10), Num(200000)}
      [] key = "trailingPE" ->
            {Absent, Num(-500), Num(0), Num(50), Num(1800), Num(2800), Num(4000)}
      [] key = "pegRatio" ->
            {Absent, Num(-100), Num(0), Num(90), Num(150), Num(200), Num(300)}
      [] key = "earningsGrowth" ->
            {Absent, Num(-30), Num(0), Num(5), Num(12), Num(25)}
      [] key = "returnOnEquity" -> {Absent, Num(-5), Num(0), Num(5), Num(12), Num(22)}
      [] key = "profitMargins" -> {Absent, Num(-3), Num(0), Num(1), Num(10), Num(30)}
      [] key = "operatingMargins" -> {Absent, Num(1), Num(4), Num(10)}
      [] key = "revenueGrowth" -> {Absent, Num(-30), Num(-15), Num(10), Num(15)}
      [] key = "debtToEquity" -> {Absent, Num(0), Num(30), Num(250), Num(500)}
      [] key = "currentRatio" -> {Absent, Num(0), Num(20), Num(60), Num(150), Num(250)}
      [] key = "sector" ->
            {AbsentStr, Str("Technology"), Str("Energy"), Str("Financial Services"),
             Str("Biotech")}
      [] key = "others" -> {Num(0), Num(6)}
      [] OTHER -> {Num(0), Num(1)}

\* a ticker with every metric known (PEG 0.9, ROE 22%, D/E 0.3)
FullInfo ==
    [ key \in InfoKeys |->
      CASE key = "marketCap" -> Num(5000)
        [] key = "volume" -> Num(200000)
        [] key = "averageVolume" -> Num(200000)
        [] key = "trailingPE" -> Num(1800)
        [] key = "pegRatio" -> Num(90)
        [] key = "earningsGrowth" -> Num(12)
        [] key = "returnOnEquity" -> Num(22)
        [] key = "profitMargins" -> Num(10)
        [] key = "operatingMargins" -> Num(10)
        [] key = "revenueGrowth" -> Num(10)
        [] key = "debtToEquity" -> Num(30)
        [] key = "currentRatio" -> Num(150)
        [] key = "sector" -> Str("Technology")
        [] key = "others" -> Num(6)
        [] OTHER -> Num(0) ]

\* a ticker of which only market capitalisation and volume are known
SparseInfo ==
    [ key \in InfoKeys |->
      CASE key = "marketCap" -> Num(5000)
        [] key = "volume" -> Num(200000)
        [] key = "sector" -> AbsentStr
        [] key = "others" -> Num(6)
        [] key = "raises" -> Num(0)
        [] OTHER -> Absent ]

\* one provider key with one of its values, and all such pairs in some order
InfoPairs == UNION { { << key, val >> : val \in InfoValues(key) } : key \in InfoKeys }

RECURSIVE SetToSeq(_)
SetToSeq(S) ==
    IF S = {} THEN << >>
    ELSE LET x == CHOOSE y \in S : TRUE IN << x >> \o SetToSeq(S \ {x})

InfoPairSeq == SetToSeq(InfoPairs)

\* the number of keys in which an info of the pre-filter's inputs may differ
\* from FullInfo or from SparseInfo
MaxChanged == 2

\* the choices of at most MaxChanged pairs: positions in InfoPairSeq in
\* increasing order, 0 for no pair
InfoChanges ==
    { c \in [1..MaxChanged -> 0..Len(InfoPairSeq)] :
        \A n \in 1..(MaxChanged - 1) : c[n] = 0 \/ c[n] < c[n + 1] }

\* the info base with the chosen pairs written into it
ChangedInfo(base, c) ==
    [ key \in InfoKeys |->
      IF \E n \in DOMAIN c : c[n] # 0 /\ InfoPairSeq[c[n]][1] = key
      THEN LET last == CHOOSE n \in DOMAIN c :
                           /\ c[n] # 0 /\ InfoPairSeq[c[n]][1] = key
                           /\ \A m \in DOMAIN c :
                                  (c[m] # 0 /\ InfoPairSeq[c[m]][1] = key) => m <= n
           IN InfoPairSeq[c[last]][2]
      ELSE base[key] ]

\* the inputs of the scorer: every combination of the scored metrics
ScoreMetrics ==
    [ trailingPE : {Absent, Num(0), Num(1800), Num(4500)},
      returnOnEquity : {Absent, Num(-5), Num(0), Num(22)},
      debtToEquity : {Absent, Num(30), Num(500)},
      earningsGrowth : {Absent, Num(0), Num(25)},
      profitMargins : {Absent, Num(0), Num(10), Num(30)},
      currentRatio : {Absent, Num(0), Num(150)},
      sector : {AbsentStr, Str("Technology"), Str("Financial Services")} ]

ScoreInfo(m) ==
    [ key \in InfoKeys |->
      IF key \in DOMAIN m THEN m[key]
      ELSE IF key \in {"marketCap", "volume", "others", "raises"} THEN FullInfo[key]
      ELSE Absent ]

EmptyInfo ==
    [ key \in InfoKeys |->
      IF key = "sector" THEN AbsentStr
      ELSE IF key \in {"others", "raises"} THEN Num(0) ELSE Absent ]

RaisingInfo == [FullInfo EXCEPT !["raises"] = Num(1)]

\* a bank with ROE 13%, debt/equity 1.5, earnings growth 8%, current ratio 2.5
BandEdgeInfo ==
    ScoreInfo([ returnOnEquity |-> Num(13), debtToEquity |-> Num(150),
                earningsGrowth |-> Num(8), currentRatio |-> Num(250),
                sector |-> Str("Financial Services") ])

\* what the provider answers for a symbol it does not know: one key and
\* nothing else
NearEmptyInfo == [EmptyInfo EXCEPT !["others"] = Num(1)]

ScoreInfos ==
    {ScoreInfo(m) : m \in ScoreMetrics}
        \cup {EmptyInfo, RaisingInfo, BandEdgeInfo, NearEmptyInfo}

\* Price histories
MaxBars == 250
LastClose == 26334

Hist(n, mean50, mean200, rsi, past63) ==
    [ status |-> "ok", n |-> n, close |-> LastClose,
      mean50 |-> IF n >= ShortWindow THEN mean50 ELSE 0,
      mean200 |-> IF n >= LongWindow THEN mean200 ELSE 0,
      rsi |-> IF n >= MinBars THEN rsi ELSE None,
      past63 |-> IF n >= ReturnDays THEN past63 ELSE 0 ]

ErrorHist == [Hist(0, 0, 0, None, 0) EXCEPT !.status = "error"]

BarCounts ==
    { 0, MinBars - 1, MinBars, ReturnDays - 1, ReturnDays, LongWindow - 1,
      LongWindow, MaxBars }

TechHists ==
    { Hist(n, m50, m200, r, p) :
        n \in BarCounts,
        m50 \in {23000, 25080, 26000, 26334, 27000, 27720, 29000},
        m200 \in {22000, 26334, 30000},
        r \in { NaN, Num(2500), Num(3000), Num(3500), Num(4000), Num(5000),
                Num(6000), Num(6500), Num(7000), Num(7500) },
        p \in {20000, 21945, 23000, 23940, 25000, 26334, 28000, 29260, 31000} }
    \cup {ErrorHist}

ScoreHists ==
    { ErrorHist,
      Hist(MinBars - 1, 0, 0, None, 0),
      Hist(ReturnDays - 1, 23000, 0, Num(5000), 0),
      Hist(ReturnDays - 1, 27000, 0, Num(3500), 0),
      Hist(LongWindow - 1, 26000, 0, NaN, 23000),
      Hist(MaxBars, 23000, 22000, Num(5000), 20000),
      Hist(MaxBars, 26000, 30000, Num(3500), 25000),
      Hist(MaxBars, 27000, 22000, Num(2500), 28000),
      Hist(MaxBars, 29000, 30000, Num(7500), 31000) }

-----------------------------------------------------------------------------
(* Lists of scored records: StockScorer.rank_stocks and filter_by_action,    *)
(* and the selection main() and run_market_screening() build from them.      *)
(* A scored record is reduced to the fields these read: the ticker, the      *)
(* action tier and the scores, rounded to hundredths as score_stock stores   *)
(* them.  The ticker of a record is its position in the input list.          *)

MaxStocks == 4
MaxTop == 3

\* << action, composite_score, valuation_score >>.  score_stock takes the tier
\* from the unrounded composite and stores round(composite, 2): 74.996 is a
\* BUY stored as 75.00, next to a STRONG_BUY at 75.00.
ScoredChoices ==
    { << "STRONG_BUY", 8000, 5500 >>, << "STRONG_BUY", 7500, 9000 >>,
      << "BUY", 7500, 5500 >>, << "BUY", 7000, 9000 >>,
      << "SPECULATIVE", 5500, 5500 >>, << "AVOID", 4000, 2000 >> }

ScoredList(f) ==
    [i \in DOMAIN f |-> [ticker |-> i, action |-> f[i][1],
                         composite_score |-> f[i][2],
                         valuation_score |-> f[i][3]]]

\* x.get(by, 0)
GetField(x, by) == IF by \in DOMAIN x THEN x[by] ELSE 0

\* a sort that puts a record before the records of equal key that came before it
RECURSIVE RankStocksUnstable(_, _)
RankStocksUnstable(s, by) ==
    IF s = << >> THEN << >>
    ELSE LET x == s[Len(s)]
             t == RankStocksUnstable(SubSeq(s, 1, Len(s) - 1), by)
             ahead == Cardinality({i \in 1..Len(t) :
                                      GetField(t[i], by) > GetField(x, by)})
         IN  SubSeq(t, 1, ahead) \o << x >> \o SubSeq(t, ahead + 1, Len(t))

\* StockScorer.rank_stocks(scored_stocks, by):
\* sorted(scored_stocks, key=lambda x: x.get(by, 0), reverse=True).  The sort is
\* stable: a record goes behind every record of a greater or equal key that
\* came before it in the input.
RECURSIVE RankStocks(_, _)
RankStocks(s, by) ==
    IF s = << >> THEN << >>
    ELSE LET x == s[Len(s)]
             t == RankStocks(SubSeq(s, 1, Len(s) - 1), by)
             ahead == Cardinality({i \in 1..Len(t) :
                                      GetField(t[i], by) >= GetField(x, by)})
         IN  SubSeq(t, 1, ahead) \o << x >> \o SubSeq(t, ahead + 1, Len(t))

\* a filter that keeps the default tiers whatever is asked for
FilterDefaultTiers(s, a) ==
    SelectSeq(s, LAMBDA x : x.action \in {"STRONG_BUY", "BUY"})

\* a filter that takes a missing or empty list of tiers as asking for none
FilterEmptyKeepsNone(s, a) ==
    SelectSeq(s, LAMBDA x : a.k = "list" /\ x.action \in a.v)

\* StockScorer.filter_by_action(scored_stocks, actions).  The actions argument
\* is None ("none") or a list of tiers ("list", with the set of its members).
FilterByAction(s, a) ==
    LET wanted == IF a.k = "none" \/ a.v = {} THEN {"STRONG_BUY", "BUY"} ELSE a.v
    IN  SelectSeq(s, LAMBDA x : x.action \in wanted)

\* the slice t[:n]
Take(t, n) ==
    IF n >= 0 THEN SubSeq(t, 1, IF n < Len(t) THEN n ELSE Len(t))
    ELSE SubSeq(t, 1, IF Len(t) + n > 0 THEN Len(t) + n ELSE 0)

\* strong_buy_stocks + buy_stocks + speculative_stocks
Recommendations(s) ==
    FilterByAction(s, [k |-> "list", v |-> {"STRONG_BUY"}])
        \o FilterByAction(s, [k |-> "list", v |-> {"BUY"}])
        \o FilterByAction(s, [k |-> "list", v |-> {"SPECULATIVE"}])

\* a selection that cuts the concatenated groups without ranking them
SelectUnranked(s, n) == Take(Recommendations(s), n)

\* main(): rank_stocks(strong_buy + buy + speculative, by='composite_score')[:top_n]
SelectTop(s, n) == Take(RankStocks(Recommendations(s), "composite_score"), n)

-----------------------------------------------------------------------------
(* BulkFetcher.fetch_basic_fundamentals and _fetch_batch.  The tickers of a  *)
(* batch are fetched by the workers of a thread pool, one task a ticker;     *)
(* the caller collects the futures in the order they complete.  A task is    *)
(* "idle" (not submitted), "queued", "done" or "collected".                  *)

MaxTickers == 3
MaxBatch == 3

Symbols == {"AAA", "BBB", "CCC"}

\* a collection that stores whatever the task returned
CollectedUnchecked(br, ticker, i) ==
    [k \in DOMAIN br \cup {ticker} |->
        IF k = ticker THEN (IF FetchSucceeds(i) THEN BasicData(i) ELSE NoData)
        ELSE br[k]]

\* _fetch_batch: data = future.result(); if data: results[ticker] = data
Collected(br, ticker, i) ==
    IF FetchSucceeds(i)
    THEN [k \in DOMAIN br \cup {ticker} |-> IF k = ticker THEN BasicData(i) ELSE br[k]]
    ELSE br

\* the positions of tickers[i:i + batch_size]
BatchAt(i, size, n) == {p \in 1..n : p > i /\ p <= i + size}

-----------------------------------------------------------------------------
(* The deep-scoring worker pool of main(): one score_stock task a ticker,    *)
(* run by the workers of a thread pool; the caller collects the futures in   *)
(* the order they complete.  The ticker of a task is its position in         *)
(* tickers_to_analyze.  A task is "queued", has its "fundamentals", has its  *)
(* "technicals", is "done" (returned) or "collected".                        *)

MaxSubmitted == 3

\* what the provider holds of a ticker: two that can be scored, one whose
\* fundamentals raise, one whose price history is too short
Feeds ==
    { [info |-> FullInfo, hist |-> Hist(MaxBars, 26000, 30000, Num(3500), 25000)],
      [info |-> SparseInfo, hist |-> Hist(MaxBars, 29000, 30000, Num(7500), 31000)],
      [info |-> RaisingInfo, hist |-> Hist(MaxBars, 26000, 30000, Num(3500), 25000)],
      [info |-> FullInfo, hist |-> Hist(MinBars - 1, 0, 0, None, 0)] }

\* tasks that keep what they read in one place they all share
SharedFrame(p) == 1

\* where task p keeps the fundamentals and technicals it read: they are local
\* variables of its own call of score_stock
Frame(p) == p

\* a task that has not run
QueuedTask == [pc |-> "queued", info |-> EmptyInfo, hist |-> ErrorHist, value |-> NoResult]

-----------------------------------------------------------------------------
(* Configuration: get_market_config and the construction of the scorer *)

\* {**US_FILTERS, **INDIA_FILTERS}: the keys of both, the value of the second
\* where both have the key
MergedFilters ==
    [k \in DOMAIN US_FILTERS \cup DOMAIN INDIA_FILTERS |->
        IF k \in DOMAIN INDIA_FILTERS THEN INDIA_FILTERS[k] ELSE US_FILTERS[k]]

\* get_market_config(market): the 'filters' entry of what it returns, or the
\* ValueError it raises
GetMarketConfig(m) ==
    CASE m = "US" -> [status |-> "ok", filters |-> US_FILTERS]
      [] m = "INDIA" -> [status |-> "ok", filters |-> INDIA_FILTERS]
      [] m = "BOTH" -> [status |-> "ok", filters |-> MergedFilters]
      [] OTHER -> [status |-> "ValueError", filters |-> << >>]

\* get_market_config has not been called
NoConfig == [status |-> "pending", filters |-> << >>]

-----------------------------------------------------------------------------
(* BulkFetcher._simple_gem_score: the score in hundredths of a point, or the *)
(* TypeError of comparing None with a number                                 *)

\* no gem score computed
NoGem == [k |-> "pending", v |-> 0]

SimpleGemScore(d) ==
    LET peg == d.peg_ratio
        pe == d.pe_ratio
        roe == d.roe
        rev_growth == d.revenue_growth
        debt_equity == d.debt_to_equity
        \* peg < c, c in hundredths
        PegBelow(c) == PCT * peg.v < c * peg.d
        value ==
            IF Truthy(peg) /\ peg.v > 0
            THEN (IF PegBelow(80) THEN 400
                  ELSE IF PegBelow(120) THEN 300
                  ELSE IF PegBelow(150) THEN 200
                  ELSE IF PegBelow(200) THEN 100
                  ELSE 0)
            ELSE IF ~Truthy(peg)
            THEN (IF Truthy(pe) /\ 0 < pe.v /\ pe.v < 800 THEN 300
                  ELSE IF Truthy(pe) /\ 800 <= pe.v /\ pe.v < 1200 THEN 200
                  ELSE IF Truthy(pe) /\ 1200 <= pe.v /\ pe.v < 1500 THEN 100
                  ELSE 0)
            ELSE 0
        quality ==
            IF Truthy(roe) /\ roe.v > 2000 THEN 300
            ELSE IF Truthy(roe) /\ roe.v > 1500 THEN 200
            ELSE IF Truthy(roe) /\ roe.v > 1000 THEN 100
            ELSE 0
        growth ==
            IF Truthy(rev_growth) /\ rev_growth.v > 1000 THEN 200
            ELSE IF Truthy(rev_growth) /\ rev_growth.v > 0 THEN 100
            ELSE 0
        safety ==
            IF IsNum(debt_equity) /\ debt_equity.v < 50 THEN 200
            ELSE IF IsNum(debt_equity) /\ debt_equity.v < 100 THEN 100
            ELSE 0
    IN  IF ~IsNum(d.market_cap) THEN [k |-> TypeError, v |-> 0]
        ELSE Num(value + quality + growth + safety
                     + (IF d.market_cap.v < 500 THEN 50 ELSE 0))

-----------------------------------------------------------------------------
(* BulkFetcher.apply_filters(stocks_data, filters).  stocks_data is given as  *)
(* the list of its items in iteration order; the ticker of a record is its    *)
(* position in that list.                                                     *)

MaxRecords == 3

\* fetched records that pass, fail each of the early checks and the valuation
\* gate, or hold a market cap of None
SieveRecords ==
    { BasicData(i) :
        i \in { FullInfo,
                [FullInfo EXCEPT !["marketCap"] = Num(50)],
                [FullInfo EXCEPT !["volume"] = Num(10), !["averageVolume"] = Num(10)],
                [FullInfo EXCEPT !["marketCap"] = None],
                [FullInfo EXCEPT !["trailingPE"] = Num(4000), !["pegRatio"] = Absent,
                                 !["earningsGrowth"] = Absent],
                [FullInfo EXCEPT !["pegRatio"] = Num(300)] } }

\* failed_reasons[reason] = 1 whatever the count was
CountReasonOnce(failed_reasons, r) ==
    [x \in DOMAIN failed_reasons \cup {r} |-> IF x = r THEN 1 ELSE failed_reasons[x]]

\* failed_reasons[reason] = failed_reasons.get(reason, 0) + 1
CountReason(failed_reasons, r) ==
    [x \in DOMAIN failed_reasons \cup {r} |->
        IF x # r THEN failed_reasons[x]
        ELSE IF r \in DOMAIN failed_reasons THEN failed_reasons[r] + 1 ELSE 1]

NoSieve == [pc |-> "idle", stocks_data |-> << >>, i |-> 0, passed |-> << >>,
            failed_reasons |-> << >>]

-----------------------------------------------------------------------------
(* main() of main.py, stage by stage.  The provider is given as the list of   *)
(* what it holds of every ticker of the universe (quotes); a ticker is its    *)
(* position in that list.  The dictionaries keyed by ticker are given as the  *)
(* lists of their keys in insertion order, taken to be the order of           *)
(* submission; the orders in which the workers of a pool may complete are     *)
(* the subject of SpecFetch and SpecPool.                                     *)

MaxUniverse == 52

\* if len(all_recommendation_stocks) < 10
GemTrigger == 10
\* filtered_tickers[:50]
GemPool == 50
\* find_simple_gems(filtered_stocks_data, max_results=10)
MaxResults == 10
\* if score > 5, in hundredths
GemFloor == 500

MidHist == Hist(MaxBars, 26000, 30000, Num(3500), 25000)
ShortHist == Hist(MinBars - 1, 0, 0, None, 0)

\* what the provider holds of a ticker: a BUY, an AVOID, two tickers that
\* cannot be scored with gem scores 9.0 and 6.0, one with gem score 0, a symbol
\* the provider does not know, a small company and one of unknown market cap
Quotes ==
    { [info |-> FullInfo, hist |-> MidHist],
      [info |-> FullInfo, hist |-> Hist(MaxBars, 29000, 30000, Num(7500), 31000)],
      [info |-> FullInfo, hist |-> ShortHist],
      [info |-> [FullInfo EXCEPT !["pegRatio"] = Num(200)], hist |-> ShortHist],
      [info |-> SparseInfo, hist |-> ShortHist],
      [info |-> NearEmptyInfo, hist |-> ShortHist],
      [info |-> [FullInfo EXCEPT !["marketCap"] = Num(50)], hist |-> MidHist],
      [info |-> [FullInfo EXCEPT !["marketCap"] = None], hist |-> MidHist] }

\* the universes looked at: n tickers, the first h of them the BUY, then j of
\* one kind, then tickers of another
UniverseSizes == {0, 1, 2, GemTrigger, GemTrigger + 1, MaxUniverse}
Universe(n, h, j, a, b) ==
    [k \in 1..n |-> IF k <= h THEN [info |-> FullInfo, hist |-> MidHist]
                    ELSE IF k <= h + j THEN a ELSE b]

\* create_screener(market, ...): market.upper() is 'US' or 'INDIA', or ValueError.
\* This one also builds a screener for 'BOTH'.
CreateScreenerForBoth(m) == IF m \in {"US", "INDIA", "BOTH"} THEN "ok" ELSE "ValueError"

CreateScreener(m) == IF m \in {"US", "INDIA"} THEN "ok" ELSE "ValueError"

\* the keys of what fetch_basic_fundamentals(tickers) returns
FetchedOf(quotes, ts) == SelectSeq(ts, LAMBDA t : FetchSucceeds(quotes[t].info))

\* apply_filters(stocks_data, filters): the list it returns, or the TypeError
\* _check_filters raises on one of the records
ApplyFiltersTo(quotes, ts, f) ==
    LET Reason(t) == CheckFilters(BasicData(quotes[t].info), f)
    IN IF \E k \in 1..Len(ts) : Reason(ts[k]) = TypeError
       THEN [status |-> "TypeError", passed |-> << >>]
       ELSE [status |-> "ok", passed |-> SelectSeq(ts, LAMBDA t : Reason(t) = NoReason)]

\* score_stock(ticker), reduced to the fields main() reads, the scores in
\* hundredths as the record stores them
ScoreOf(quotes, t) ==
    LET r == ScoreRecord(quotes[t].info, quotes[t].hist, SECTOR_BENCHMARKS)
    IN [ ticker |-> t, action |-> r.action,
         composite_score |-> Round2(r.composite_score),
         valuation_score |->
             Round2([n |-> 100 * r.valuation_score.p, d |-> r.valuation_score.m]) ]

\* analyzed_stocks: the records of the tickers score_stock returned one for
AnalyzedOf(quotes, ts) ==
    LET ok == SelectSeq(ts, LAMBDA t : ScoreSucceeds(quotes[t].info, quotes[t].hist))
    IN [k \in 1..Len(ok) |-> ScoreOf(quotes, ok[k])]

\* a pass that fetches every filtered ticker again
GemFetchesAll(filtered_tickers, analyzed_stocks) == filtered_tickers

\* the tickers the hidden-gems pass calls _fetch_single for
GemFetches(filtered_tickers, analyzed_stocks) ==
    SelectSeq(Take(filtered_tickers, GemPool),
              LAMBDA t : \A k \in 1..Len(analyzed_stocks) : analyzed_stocks[k].ticker # t)

\* find_simple_gems(stocks_data, max_results): the candidates with their
\* scores, or the TypeError of _simple_gem_score
GemCandidates(quotes, ts) ==
    LET Score(t) == SimpleGemScore(BasicData(quotes[t].info))
        rated == [k \in 1..Len(ts) |-> [ticker |-> ts[k], score |-> Score(ts[k])]]
    IN IF \E k \in 1..Len(ts) : rated[k].score.k # "num"
       THEN [status |-> "TypeError", gems |-> << >>]
       ELSE [status |-> "ok",
             gems |-> Take(RankStocks(
                               SelectSeq([k \in 1..Len(ts) |->
                                             [ticker |-> ts[k], score |-> rated[k].score.v]],
                                         LAMBDA x : x.score > GemFloor),
                               "score"),
                           MaxResults)]

NoMain ==
    [ pc |-> "idle", top_n |-> 0, analyze_all |-> FALSE, quotes |-> << >>,
      all_tickers |-> << >>, stocks_data |-> << >>, filtered_tickers |-> << >>,
      tickers_to_analyze |-> << >>, analyzed_stocks |-> << >>,
      all_recommendation_stocks |-> << >>, filtered_stocks_data |-> << >>,
      gem_tickers |-> << >>, top_stocks |-> << >>, log |-> << >>,
      fetches |-> 0, scorings |-> 0, saved |-> FALSE ]

-----------------------------------------------------------------------------
(* YahooFinanceClient.screen_stocks: the paginated screening request.  A    *)
(* page is named by its number, offset // page_size; what the service       *)
(* answers to a request is not the program's to choose.                     *)

\* the pages of `range(0, max_results, page_size)` at most
MaxPages == 4

\* what one requests.post can come to: status 200 with a full page of quotes,
\* with fewer quotes than page_size, or with none; another status; or a raise
Answers == {"200 full", "200 short", "200 empty", "401", "429", "500",
            "Timeout", "Exception"}

NoApi == [pc |-> "idle", api_key |-> FALSE, pages |-> 0, offset |-> 0,
          posted |-> << >>, all_tickers |-> << >>, waits |-> 0, returned |-> {}]

\* the body of `for offset in range(0, max_results, page_size)` for one answer:
\* `break` leaves the loop, `continue` and the end of the body go on to the
\* next offset
Page(a, answer) ==
    LET sent == [a EXCEPT !.posted = Append(@, [offset |-> a.offset, status |-> answer])]
    IN CASE answer = "200 full" ->
                [sent EXCEPT !.all_tickers = Append(@, a.offset), !.offset = @ + 1]
         [] answer = "200 short" ->
                [sent EXCEPT !.all_tickers = Append(@, a.offset), !.pc = "break"]
         [] answer = "429" ->
                [sent EXCEPT !.waits = @ + 1, !.offset = @ + 1]
         [] OTHER -> [sent EXCEPT !.pc = "break"]

-----------------------------------------------------------------------------
(* The market screeners' screen_stocks.  A ticker is its symbol and the     *)
(* exchange suffixes that follow it, in order.                              *)

\* the symbols a source can list
MaxSymbols == 2

NoList == [k |-> "none", v |-> << >>]
List(s) == [k |-> "list", v |-> s]

Ticker(market_name, symbol) ==
    [symbol |-> symbol, suffix |-> IF market_name = "INDIA" THEN << ".NS" >> ELSE << >>]

\* what a source of the market can give: nothing, or tickers, possibly repeated
SourceLists(market_name) ==
    LET T(s) == Ticker(market_name, s)
    IN { << >>, << T(1) >>, << T(1), T(1) >>, << T(2), T(1) >>, << T(1), T(2), T(1) >> }

\* list(set(tickers)): the distinct tickers, in an order the build chooses
Orderings(S) ==
    { s \in [1..Cardinality(S) -> S] : \A x \in S : \E k \in 1..Cardinality(S) : s[k] = x }

Range(s) == { s[k] : k \in 1..Len(s) }

\* the values of filters['exchanges'] (IndiaScreener reads it, default both)
ExchangeLists == { {"NSE", "BSE"}, {"NSE"}, {"BSE"} }

\* t.endswith('.NS')
EndsWithNS(t) == Len(t.suffix) > 0 /\ t.suffix[Len(t.suffix)] = ".NS"

\* _apply_filters after its list(set(tickers)): USScreener leaves the list as
\* it is, IndiaScreener sets the suffix and keeps or converts by exchange
ApplyMarketFilters(market_name, exchanges, ts) ==
    IF market_name = "US" THEN ts
    ELSE LET ns == [k \in 1..Len(ts) |->
                       IF EndsWithNS(ts[k]) THEN ts[k]
                       ELSE [ts[k] EXCEPT !.suffix = Append(@, ".NS")]]
         IN IF "NSE" \in exchanges /\ "BSE" \notin exchanges
            THEN SelectSeq(ns, EndsWithNS)
            ELSE IF "BSE" \in exchanges /\ "NSE" \notin exchanges
            THEN [k \in 1..Len(ns) |->
                     [ns[k] EXCEPT !.suffix =
                         [j \in 1..Len(@) |-> IF @[j] = ".NS" THEN ".BO" ELSE @[j]]]]
            ELSE ns

\* a mistaken reading of `if not tickers:` that always asks the second source
AlwaysSecondary(ts) == TRUE

\* screen_stocks: `if not tickers:` after the primary source
NeedsSecondary(ts) == ts = << >>

NoScreening ==
    [ pc |-> "idle", market_name |-> "US", use_cache |-> FALSE,
      cache_manager |-> FALSE, file |-> NoList, filters_valid |-> FALSE,
      exchanges |-> {"NSE", "BSE"}, primary |-> << >>, secondary |-> << >>,
      tickers |-> << >>, calls |-> << >>, saved |-> NoList, returned |-> NoList ]

-----------------------------------------------------------------------------
(* The state machine.  One ticker is followed through the pre-filter         *)
(* (_fetch_single, then _check_filters as apply_filters calls it), through    *)
(* the technical analyzer (analyze, then get_technical_score) and through     *)
(* score_stock.                                                               *)

\* no call made on a list of scored records
IdleCall == [name |-> "idle", by |-> "", actions |-> [k |-> "none", v |-> {}], n |-> 0]

\* no list of scored records is worked on
NoLists ==
    /\ stocks = << >>
    /\ call = IdleCall
    /\ out = << >>

\* no bulk fetch is under way
NoFetch ==
    /\ tickers = << >>
    /\ provider = << >>
    /\ batchSize = 1
    /\ batchStart = 0
    /\ task = << >>
    /\ batchResults = << >>
    /\ results = << >>
    /\ failed = << >>
    /\ fetchPc = "returned"

\* no worker pool is running
NoPool ==
    /\ feeds = << >>
    /\ work = << >>
    /\ analyzed = << >>
    /\ failedCount = 0

\* the configuration of the default market, resolved, and the scorer built
DefaultConfig ==
    /\ market = "US"
    /\ config = [status |-> "ok", filters |-> US_FILTERS]
    /\ scorer = "built"

\* nothing done yet on lists, batches or pools
\* no call or run on many tickers is in progress
NoRun == sieve = NoSieve /\ run = NoMain /\ api = NoApi /\ screening = NoScreening

NoAggregate ==
    NoLists /\ NoFetch /\ NoPool /\ DefaultConfig /\ gem = NoGem /\ NoRun

Start ==
    /\ fetched = "pending"
    /\ data = NoData
    /\ checked = FALSE
    /\ reason = NoReason
    /\ analysed = "pending"
    /\ technical = NoTechnical
    /\ techScored = FALSE
    /\ techScore = Frac(0, 1)
    /\ scored = "pending"
    /\ result = NoResult

InitFilter ==
    /\ \E base \in {FullInfo, SparseInfo} :
           \E c \in InfoChanges : info = ChangedInfo(base, c)
    /\ hist = ErrorHist
    /\ filters \in FilterNames
    /\ benchmarks = "SECTOR_BENCHMARKS"
    /\ Start
    /\ NoAggregate

InitTech ==
    /\ info = FullInfo
    /\ hist \in TechHists
    /\ filters = "US"
    /\ benchmarks = "SECTOR_BENCHMARKS"
    /\ Start
    /\ NoAggregate

Init ==
    /\ info \in ScoreInfos
    /\ hist \in ScoreHists
    /\ filters = "US"
    /\ benchmarks \in BenchmarkNames
    /\ Start
    /\ NoAggregate

\* BulkFetcher._fetch_single(ticker)
FetchSingle ==
    /\ fetched = "pending"
    /\ IF FetchSucceeds(info)
       THEN fetched' = "ok" /\ data' = BasicData(info)
       ELSE fetched' = "nodata" /\ data' = NoData
    /\ UNCHANGED << info, hist, filters, benchmarks, checked, reason, analysed,
                    technical, techScored, techScore, scored, result >>
    /\ UNCHANGED aggregateVars

\* BulkFetcher.apply_filters: one iteration of its loop over the fetched records
ApplyFilters ==
    /\ fetched = "ok"
    /\ ~checked
    /\ checked' = TRUE
    /\ reason' = CheckFilters(data, FilterTable(filters))
    /\ UNCHANGED << info, hist, filters, benchmarks, fetched, data, analysed,
                    technical, techScored, techScore, scored, result >>
    /\ UNCHANGED aggregateVars

\* TechnicalAnalyzer.analyze(ticker)
Analyze ==
    /\ analysed = "pending"
    /\ IF AnalyzeSucceeds(hist)
       THEN analysed' = "ok" /\ technical' = TechnicalRecord(hist)
       ELSE analysed' = "nodata" /\ technical' = NoTechnical
    /\ UNCHANGED << info, hist, filters, benchmarks, fetched, data, checked, reason,
                    techScored, techScore, scored, result >>
    /\ UNCHANGED aggregateVars

\* TechnicalAnalyzer.get_technical_score(technical)
TechScore ==
    /\ analysed # "pending"
    /\ ~techScored
    /\ techScored' = TRUE
    /\ techScore' = GetTechnicalScore(analysed = "ok", technical)
    /\ UNCHANGED << info, hist, filters, benchmarks, fetched, data, checked, reason,
                    analysed, technical, scored, result >>
    /\ UNCHANGED aggregateVars

\* StockScorer.score_stock(ticker)
ScoreStock ==
    /\ scored = "pending"
    /\ IF ScoreSucceeds(info, hist)
       THEN scored' = "ok"
            /\ result' = ScoreRecord(info, hist, BenchmarkTable(benchmarks))
       ELSE scored' = "nodata" /\ result' = NoResult
    /\ UNCHANGED << info, hist, filters, benchmarks, fetched, data, checked, reason,
                    analysed, technical, techScored, techScore >>
    /\ UNCHANGED aggregateVars

\* no ticker is being evaluated: the variables of the one-ticker evaluation idle
NoTicker ==
    /\ info = EmptyInfo
    /\ hist = ErrorHist
    /\ filters = "US"
    /\ benchmarks = "SECTOR_BENCHMARKS"
    /\ Start

InitRank ==
    /\ NoTicker
    /\ \E n \in 0..MaxStocks : \E f \in [1..n -> ScoredChoices] : stocks = ScoredList(f)
    /\ call = IdleCall
    /\ out = << >>
    /\ NoFetch
    /\ NoPool
    /\ DefaultConfig
    /\ gem = NoGem
    /\ NoRun

\* scorer.rank_stocks(stocks, by), by a field of the records or by one they lack
RankStocksCall ==
    /\ call.name = "idle"
    /\ \E by \in {"composite_score", "valuation_score", "momentum_score"} :
        /\ call' = [call EXCEPT !.name = "rank_stocks", !.by = by]
        /\ out' = RankStocks(stocks, by)
    /\ UNCHANGED << stocks, tickerVars, fetchVars, poolVars, configVars, gem, runVars >>

\* scorer.filter_by_action(stocks, actions)
FilterByActionCall ==
    /\ call.name = "idle"
    /\ \E a \in {[k |-> "none", v |-> {}]}
                \cup {[k |-> "list", v |-> t] :
                         t \in SUBSET {"STRONG_BUY", "BUY", "SPECULATIVE", "AVOID"}} :
        /\ call' = [call EXCEPT !.name = "filter_by_action", !.actions = a]
        /\ out' = FilterByAction(stocks, a)
    /\ UNCHANGED << stocks, tickerVars, fetchVars, poolVars, configVars, gem, runVars >>

\* the selection of main() with --top-n n (run_market_screening: n = 20)
SelectCall ==
    /\ call.name = "idle"
    /\ \E n \in 0..MaxTop :
        /\ call' = [call EXCEPT !.name = "select", !.n = n]
        /\ out' = SelectTop(stocks, n)
    /\ UNCHANGED << stocks, tickerVars, fetchVars, poolVars, configVars, gem, runVars >>

InitFetch ==
    /\ NoTicker
    /\ NoLists
    /\ \E n \in 0..MaxTickers : tickers \in [1..n -> Symbols]
    /\ provider \in [Symbols -> {FullInfo, EmptyInfo, RaisingInfo}]
    /\ batchSize \in 1..MaxBatch
    /\ batchStart = 0
    /\ task = [p \in DOMAIN tickers |-> "idle"]
    /\ batchResults = << >>
    /\ results = << >>
    /\ failed = << >>
    /\ fetchPc = "loop"
    /\ NoPool
    /\ DefaultConfig
    /\ gem = NoGem
    /\ NoRun

\* fetch_basic_fundamentals: batch = tickers[i:i + batch_size], and
\* _fetch_batch submitting one task a ticker
StartBatch ==
    /\ fetchPc = "loop"
    /\ batchStart < Len(tickers)
    /\ task' = [p \in DOMAIN tickers |->
                   IF p \in BatchAt(batchStart, batchSize, Len(tickers))
                   THEN "queued" ELSE task[p]]
    /\ batchResults' = << >>
    /\ fetchPc' = "batch"
    /\ UNCHANGED << tickers, provider, batchSize, batchStart, results, failed >>
    /\ UNCHANGED << tickerVars, listVars, poolVars, configVars, gem, runVars >>

\* a worker runs _fetch_single(ticker) to its end
RunFetch ==
    /\ fetchPc = "batch"
    /\ \E p \in DOMAIN tickers :
        /\ task[p] = "queued"
        /\ task' = [task EXCEPT ![p] = "done"]
    /\ UNCHANGED << tickers, provider, batchSize, batchStart, batchResults,
                    results, failed, fetchPc >>
    /\ UNCHANGED << tickerVars, listVars, poolVars, configVars, gem, runVars >>

\* _fetch_batch: one iteration of the loop over as_completed(future_to_ticker)
CollectFetch ==
    /\ fetchPc = "batch"
    /\ \E p \in DOMAIN tickers :
        /\ task[p] = "done"
        /\ task' = [task EXCEPT ![p] = "collected"]
        /\ batchResults' = Collected(batchResults, tickers[p], provider[tickers[p]])
    /\ UNCHANGED << tickers, provider, batchSize, batchStart, results, failed,
                    fetchPc >>
    /\ UNCHANGED << tickerVars, listVars, poolVars, configVars, gem, runVars >>

\* _fetch_batch returns; fetch_basic_fundamentals merges the batch, notes the
\* tickers that failed and moves to the next batch
EndBatch ==
    /\ fetchPc = "batch"
    /\ \A p \in BatchAt(batchStart, batchSize, Len(tickers)) : task[p] = "collected"
    /\ results' = [k \in DOMAIN results \cup DOMAIN batchResults |->
                       IF k \in DOMAIN batchResults THEN batchResults[k]
                       ELSE results[k]]
    /\ failed' = failed \o SelectSeq(SubSeq(tickers, batchStart + 1,
                                            IF batchStart + batchSize < Len(tickers)
                                            THEN batchStart + batchSize
                                            ELSE Len(tickers)),
                                     LAMBDA t : t \notin DOMAIN batchResults)
    /\ batchStart' = batchStart + batchSize
    /\ fetchPc' = "loop"
    /\ UNCHANGED << tickers, provider, batchSize, task, batchResults >>
    /\ UNCHANGED << tickerVars, listVars, poolVars, configVars, gem, runVars >>

\* fetch_basic_fundamentals: the range is exhausted, return results
ReturnFetch ==
    /\ fetchPc = "loop"
    /\ ~(batchStart < Len(tickers))
    /\ fetchPc' = "returned"
    /\ UNCHANGED << tickers, provider, batchSize, batchStart, task, batchResults,
                    results, failed >>
    /\ UNCHANGED << tickerVars, listVars, poolVars, configVars, gem, runVars >>

InitPool ==
    /\ NoTicker
    /\ NoLists
    /\ NoFetch
    /\ \E n \in 0..MaxSubmitted : feeds \in [1..n -> Feeds]
    /\ work = [p \in DOMAIN feeds |-> QueuedTask]
    /\ analyzed = << >>
    /\ failedCount = 0
    /\ DefaultConfig
    /\ gem = NoGem
    /\ NoRun

\* score_stock: fundamentals = self.fundamental_analyzer.analyze(ticker)
PoolFundamentals ==
    /\ \E p \in DOMAIN work :
        /\ work[p].pc = "queued"
        /\ work' = [work EXCEPT ![Frame(p)].info = feeds[p].info,
                                ![p].pc = "fundamentals"]
    /\ UNCHANGED << feeds, analyzed, failedCount >>
    /\ UNCHANGED << tickerVars, listVars, fetchVars, configVars, gem, runVars >>

\* score_stock: if not fundamentals: return None;
\* technicals = self.technical_analyzer.analyze(ticker)
PoolTechnicals ==
    /\ \E p \in DOMAIN work :
        /\ work[p].pc = "fundamentals"
        /\ IF FundamentalsSucceed(work[Frame(p)].info)
           THEN work' = [work EXCEPT ![Frame(p)].hist = feeds[p].hist,
                                     ![p].pc = "technicals"]
           ELSE work' = [work EXCEPT ![p].pc = "done", ![p].value = NoResult]
    /\ UNCHANGED << feeds, analyzed, failedCount >>
    /\ UNCHANGED << tickerVars, listVars, fetchVars, configVars, gem, runVars >>

\* score_stock: if not technicals: return None; the scores, the record, return
PoolScore ==
    /\ \E p \in DOMAIN work :
        /\ work[p].pc = "technicals"
        /\ IF AnalyzeSucceeds(work[Frame(p)].hist)
           THEN work' = [work EXCEPT
                            ![p].pc = "done",
                            ![p].value = ScoreRecord(work[Frame(p)].info,
                                                     work[Frame(p)].hist,
                                                     BenchmarkTable(benchmarks))]
           ELSE work' = [work EXCEPT ![p].pc = "done", ![p].value = NoResult]
    /\ UNCHANGED << feeds, analyzed, failedCount >>
    /\ UNCHANGED << tickerVars, listVars, fetchVars, configVars, gem, runVars >>

\* main(): one iteration of the loop over as_completed(future_to_ticker)
PoolCollect ==
    /\ \E p \in DOMAIN work :
        /\ work[p].pc = "done"
        /\ work' = [work EXCEPT ![p].pc = "collected"]
        /\ IF work[p].value # NoResult
           THEN /\ analyzed' = Append(analyzed, [ticker |-> p, record |-> work[p].value])
                /\ UNCHANGED failedCount
           ELSE /\ failedCount' = failedCount + 1
                /\ UNCHANGED analyzed
    /\ UNCHANGED feeds
    /\ UNCHANGED << tickerVars, listVars, fetchVars, configVars, gem, runVars >>

InitConfig ==
    /\ info \in {FullInfo, SparseInfo, EmptyInfo, RaisingInfo}
    /\ hist \in ScoreHists
    /\ filters = "US"
    /\ benchmarks \in BenchmarkNames \cup {"SKEWED_BENCHMARKS"}
    /\ Start
    /\ NoLists
    /\ NoFetch
    /\ NoPool
    /\ market \in {"US", "INDIA", "BOTH", "EU"}
    /\ config = NoConfig
    /\ scorer = "none"
    /\ gem = NoGem
    /\ NoRun

\* main(): market_config = get_market_config(args.market)
ResolveConfig ==
    /\ config.status = "pending"
    /\ config' = GetMarketConfig(market)
    /\ UNCHANGED << market, scorer >>
    /\ UNCHANGED << tickerVars, listVars, fetchVars, poolVars, gem, runVars >>

\* main(): scorer = StockScorer(..., sector_benchmarks=...); the constructor
\* stores the table as it is given
BuildScorer ==
    /\ config.status = "ok"
    /\ scorer = "none"
    /\ scorer' = "built"
    /\ UNCHANGED << market, config >>
    /\ UNCHANGED << tickerVars, listVars, fetchVars, poolVars, gem, runVars >>

\* scorer.score_stock(ticker)
ConfigScore ==
    /\ scorer = "built"
    /\ ScoreStock

\* main(): stock_data = bulk_fetcher._fetch_single(ticker), and
\* find_simple_gems calling _simple_gem_score on it
GemScore ==
    /\ fetched = "ok"
    /\ gem.k = "pending"
    /\ gem' = SimpleGemScore(data)
    /\ UNCHANGED << tickerVars, listVars, fetchVars, poolVars, configVars, runVars >>

\* main() is entered with --market, --top-n and --analyze-all parsed
InitMain ==
    /\ NoTicker
    /\ NoLists /\ NoFetch /\ NoPool /\ gem = NoGem /\ sieve = NoSieve
    /\ api = NoApi /\ screening = NoScreening
    /\ market \in {"US", "INDIA", "BOTH"}
    /\ config = NoConfig
    /\ scorer = "none"
    /\ \E n \in UniverseSizes : \E h \in {0, 1} : \E j \in {0, 1, GemTrigger} :
       \E a \in Quotes : \E b \in Quotes :
       \E top_n \in {1, 5} : \E all \in BOOLEAN :
           run = [NoMain EXCEPT !.pc = "config", !.top_n = top_n, !.analyze_all = all,
                                !.quotes = Universe(n, h, j, a, b)]

\* an exception leaves main(): __main__ prints it and calls sys.exit(1)
Exit1(r) == [r EXCEPT !.pc = "exit1"]
\* a return that logs nothing
ReturnSilently(r, msg) == [r EXCEPT !.pc = "returned"]

\* logger.error(msg) or logger.warning(msg), then return
ReturnWith(r, msg) == [r EXCEPT !.pc = "returned", !.log = Append(@, msg)]

\* market_config = get_market_config(args.market)
MainConfig ==
    /\ run.pc = "config"
    /\ config' = GetMarketConfig(market)
    /\ run' = IF config'.status = "ok" THEN [run EXCEPT !.pc = "screener"] ELSE Exit1(run)
    /\ UNCHANGED << tickerVars, listVars, fetchVars, poolVars, market, scorer, gem, sieve, api, screening >>

\* screener = create_screener(market=args.market, ...)
MainCreateScreener ==
    /\ run.pc = "screener"
    /\ run' = IF CreateScreener(market) = "ok" THEN [run EXCEPT !.pc = "screen"]
              ELSE Exit1(run)
    /\ UNCHANGED << tickerVars, listVars, fetchVars, poolVars, configVars, gem, sieve, api, screening >>

\* STEP 1: all_tickers = screener.screen_stocks(...)
MainScreen ==
    /\ run.pc = "screen"
    /\ LET all_tickers == [k \in 1..Len(run.quotes) |-> k]
       IN run' = IF all_tickers = << >>
                 THEN ReturnWith(run, "No stocks found in initial screening")
                 ELSE [run EXCEPT !.pc = "fetch", !.all_tickers = all_tickers]
    /\ UNCHANGED << tickerVars, listVars, fetchVars, poolVars, configVars, gem, sieve, api, screening >>

\* STEP 2: stocks_data = bulk_fetcher.fetch_basic_fundamentals(all_tickers, ...)
MainFetch ==
    /\ run.pc = "fetch"
    /\ LET stocks_data == FetchedOf(run.quotes, run.all_tickers)
           r == [run EXCEPT !.fetches = @ + Len(run.all_tickers),
                            !.stocks_data = stocks_data]
       IN run' = IF stocks_data = << >>
                 THEN ReturnWith(r, "Failed to fetch fundamental data")
                 ELSE [r EXCEPT !.pc = "filter"]
    /\ UNCHANGED << tickerVars, listVars, fetchVars, poolVars, configVars, gem, sieve, api, screening >>

\* filtered_tickers = bulk_fetcher.apply_filters(stocks_data, market_config['filters'])
\* and the choice of tickers_to_analyze
MainFilter ==
    /\ run.pc = "filter"
    /\ LET applied == ApplyFiltersTo(run.quotes, run.stocks_data, config.filters)
           filtered_tickers == applied.passed
       IN run' =
            IF applied.status # "ok" THEN Exit1(run)
            ELSE IF filtered_tickers = << >>
            THEN ReturnWith(run, "No stocks passed filters")
            ELSE [run EXCEPT !.pc = "score",
                             !.filtered_tickers = filtered_tickers,
                             !.tickers_to_analyze =
                                 IF run.analyze_all THEN filtered_tickers
                                 ELSE Take(filtered_tickers, run.top_n * 2)]
    /\ UNCHANGED << tickerVars, listVars, fetchVars, poolVars, configVars, gem, sieve, api, screening >>

\* STEP 3: the scorer is built and score_stock runs on tickers_to_analyze
MainScore ==
    /\ run.pc = "score"
    /\ scorer' = "built"
    /\ LET analyzed_stocks == AnalyzedOf(run.quotes, run.tickers_to_analyze)
           r == [run EXCEPT !.scorings = @ + Len(run.tickers_to_analyze),
                            !.analyzed_stocks = analyzed_stocks]
       IN run' = IF analyzed_stocks = << >>
                 THEN ReturnWith(r, "No stocks successfully analyzed")
                 ELSE [r EXCEPT !.pc = "select"]
    /\ UNCHANGED << tickerVars, listVars, fetchVars, poolVars, market, config, gem, sieve, api, screening >>

\* STEP 4: the three filter_by_action calls and the test that starts the
\* hidden-gems pass
MainSelect ==
    /\ run.pc = "select"
    /\ LET all_recommendation_stocks == Recommendations(run.analyzed_stocks)
       IN run' = [run EXCEPT
                    !.all_recommendation_stocks = all_recommendation_stocks,
                    !.pc = IF Len(all_recommendation_stocks) < GemTrigger
                           THEN "gems" ELSE "rank"]
    /\ UNCHANGED << tickerVars, listVars, fetchVars, poolVars, configVars, gem, sieve, api, screening >>

\* the hidden-gems pass: _fetch_single on the filtered tickers without a
\* record, then find_simple_gems
MainGems ==
    /\ run.pc = "gems"
    /\ LET asked == GemFetches(run.filtered_tickers, run.analyzed_stocks)
           filtered_stocks_data == FetchedOf(run.quotes, asked)
           found == GemCandidates(run.quotes, filtered_stocks_data)
           r == [run EXCEPT !.fetches = @ + Len(asked),
                            !.filtered_stocks_data = filtered_stocks_data]
       IN run' = IF found.status # "ok" THEN Exit1(r)
                 ELSE [r EXCEPT !.pc = "rank",
                                !.gem_tickers = [k \in 1..Len(found.gems) |->
                                                    found.gems[k].ticker],
                                !.log = Append(@, "additional hidden gems")]
    /\ UNCHANGED << tickerVars, listVars, fetchVars, poolVars, configVars, gem, sieve, api, screening >>

\* top_stocks = scorer.rank_stocks(all_recommendation_stocks, ...)[:args.top_n]
MainRank ==
    /\ run.pc = "rank"
    /\ run' = [run EXCEPT !.pc = "report",
                          !.top_stocks =
                              Take(RankStocks(run.all_recommendation_stocks,
                                              "composite_score"), run.top_n)]
    /\ UNCHANGED << tickerVars, listVars, fetchVars, poolVars, configVars, gem, sieve, api, screening >>

\* STEP 5 and STEP 6: the display, save_results_to_csv and the summary
MainReport ==
    /\ run.pc = "report"
    /\ run' = IF run.top_stocks = << >>
              THEN [run EXCEPT !.pc = "returned",
                               !.log = @ \o << "No stocks meet the recommendation criteria",
                                               "No results to save", "SUMMARY" >>]
              ELSE [run EXCEPT !.pc = "returned", !.saved = TRUE,
                               !.log = Append(@, "SUMMARY")]
    /\ UNCHANGED << tickerVars, listVars, fetchVars, poolVars, configVars, gem, sieve, api, screening >>

NextMain ==
    \/ MainConfig \/ MainCreateScreener \/ MainScreen \/ MainFetch \/ MainFilter
    \/ MainScore \/ MainSelect \/ MainGems \/ MainRank \/ MainReport

SpecMain == InitMain /\ [][NextMain]_vars

\* a call of apply_filters on up to MaxRecords fetched records
InitSieve ==
    /\ info = EmptyInfo
    /\ hist = ErrorHist
    /\ filters \in FilterNames
    /\ benchmarks = "SECTOR_BENCHMARKS"
    /\ Start
    /\ NoLists /\ NoFetch /\ NoPool /\ DefaultConfig /\ gem = NoGem /\ run = NoMain
    /\ api = NoApi /\ screening = NoScreening
    /\ \E n \in 0..MaxRecords : \E d \in [1..n -> SieveRecords] :
           sieve = [NoSieve EXCEPT !.pc = "loop", !.stocks_data = d]

\* apply_filters: one turn of `for ticker, data in stocks_data.items()`; a
\* TypeError raised by _check_filters leaves the function
SieveStep ==
    /\ sieve.pc = "loop"
    /\ sieve.i < Len(sieve.stocks_data)
    /\ LET ticker == sieve.i + 1
           r == CheckFilters(sieve.stocks_data[ticker], FilterTable(filters))
       IN sieve' =
            IF r = TypeError THEN [sieve EXCEPT !.pc = "raised"]
            ELSE IF r = NoReason
            THEN [sieve EXCEPT !.i = ticker, !.passed = Append(@, ticker)]
            ELSE [sieve EXCEPT !.i = ticker,
                               !.failed_reasons = CountReason(@, r)]
    /\ UNCHANGED << tickerVars, listVars, fetchVars, poolVars, configVars, gem, run, api, screening >>

\* apply_filters: return passed
SieveReturn ==
    /\ sieve.pc = "loop"
    /\ sieve.i = Len(sieve.stocks_data)
    /\ sieve' = [sieve EXCEPT !.pc = "returned"]
    /\ UNCHANGED << tickerVars, listVars, fetchVars, poolVars, configVars, gem, run, api, screening >>

NextSieve == SieveStep \/ SieveReturn

SpecSieve == InitSieve /\ [][NextSieve]_vars

\* a call of YahooFinanceClient.screen_stocks for up to MaxPages pages
InitApi ==
    /\ info = EmptyInfo
    /\ hist = ErrorHist
    /\ filters = "US"
    /\ benchmarks = "SECTOR_BENCHMARKS"
    /\ Start
    /\ NoLists /\ NoFetch /\ NoPool /\ DefaultConfig /\ gem = NoGem
    /\ sieve = NoSieve /\ run = NoMain /\ screening = NoScreening
    /\ \E k \in BOOLEAN : \E n \in 0..MaxPages :
           api = [NoApi EXCEPT !.pc = "loop", !.api_key = k, !.pages = n]

\* screen_stocks: `if not self.api_key: return []`
ScreenStocksNoKey ==
    /\ api.pc = "loop"
    /\ ~api.api_key
    /\ api' = [api EXCEPT !.pc = "returned"]
    /\ UNCHANGED << tickerVars, listVars, fetchVars, poolVars, configVars, gem, sieve, run, screening >>

\* screen_stocks: one turn of the loop, the request and what follows its answer
ScreenStocksPage ==
    /\ api.pc = "loop"
    /\ api.api_key
    /\ api.offset < api.pages
    /\ \E answer \in Answers : api' = Page(api, answer)
    /\ UNCHANGED << tickerVars, listVars, fetchVars, poolVars, configVars, gem, sieve, run, screening >>

\* screen_stocks: `return list(set(all_tickers))`, after the last offset or a break
ScreenStocksReturn ==
    /\ api.api_key
    /\ api.pc = "break" \/ (api.pc = "loop" /\ api.offset = api.pages)
    /\ api' = [api EXCEPT !.pc = "returned", !.returned = Range(api.all_tickers)]
    /\ UNCHANGED << tickerVars, listVars, fetchVars, poolVars, configVars, gem, sieve, run, screening >>

NextApi == ScreenStocksNoKey \/ ScreenStocksPage \/ ScreenStocksReturn

SpecApi == InitApi /\ [][NextApi]_vars

\* a call of screen_stocks on a USScreener or an IndiaScreener; `file` is what
\* cache_manager.load would give: None for a missing, malformed or expired
\* file, the stored list otherwise
InitScreening ==
    /\ info = EmptyInfo
    /\ hist = ErrorHist
    /\ filters = "US"
    /\ benchmarks = "SECTOR_BENCHMARKS"
    /\ Start
    /\ NoLists /\ NoFetch /\ NoPool /\ DefaultConfig /\ gem = NoGem
    /\ sieve = NoSieve /\ run = NoMain /\ api = NoApi
    /\ \E m \in {"US", "INDIA"} : \E u, c, f \in BOOLEAN :
       \E x \in IF m = "INDIA" THEN ExchangeLists ELSE {{"NSE", "BSE"}} :
       \E p, s \in SourceLists(m) :
       \E stored \in IF c THEN {NoList, List(<< >>), List(<< Ticker(m, 1) >>),
                               List(<< Ticker(m, 2), Ticker(m, 1) >>)}
                     ELSE {NoList} :
           screening = [NoScreening EXCEPT !.pc = "cache", !.market_name = m,
                                           !.use_cache = u, !.cache_manager = c,
                                           !.file = stored, !.filters_valid = f,
                                           !.exchanges = x, !.primary = p,
                                           !.secondary = s]

\* screen_stocks: `if use_cache: cached = self._load_from_cache(); if cached:
\* return cached`
ScreenLoadCache ==
    /\ screening.pc = "cache"
    /\ LET cached == IF screening.cache_manager THEN screening.file ELSE NoList
       IN screening' =
            IF ~screening.use_cache THEN [screening EXCEPT !.pc = "validate"]
            ELSE IF cached.k = "list" /\ cached.v # << >>
            THEN [screening EXCEPT !.pc = "returned", !.calls = Append(@, "load"),
                                   !.returned = cached]
            ELSE [screening EXCEPT !.pc = "validate", !.calls = Append(@, "load")]
    /\ UNCHANGED << tickerVars, listVars, fetchVars, poolVars, configVars, gem, sieve, run, api >>

\* screen_stocks: `if not self.validate_filters(): return []`
ScreenValidate ==
    /\ screening.pc = "validate"
    /\ screening' =
         IF ~screening.filters_valid
         THEN [screening EXCEPT !.pc = "returned", !.calls = Append(@, "validate"),
                                !.returned = List(<< >>)]
         ELSE [screening EXCEPT !.pc = "primary", !.calls = Append(@, "validate")]
    /\ UNCHANGED << tickerVars, listVars, fetchVars, poolVars, configVars, gem, sieve, run, api >>

\* screen_stocks: `tickers = self._fetch_from_primary_source()`
ScreenPrimary ==
    /\ screening.pc = "primary"
    /\ screening' = [screening EXCEPT
                        !.pc = IF NeedsSecondary(screening.primary) THEN "secondary"
                               ELSE "finish",
                        !.calls = Append(@, "primary"),
                        !.tickers = screening.primary]
    /\ UNCHANGED << tickerVars, listVars, fetchVars, poolVars, configVars, gem, sieve, run, api >>

\* screen_stocks: `if not tickers: tickers = self._fetch_from_secondary_source()`
ScreenSecondary ==
    /\ screening.pc = "secondary"
    /\ screening' = [screening EXCEPT !.pc = "finish",
                                      !.calls = Append(@, "secondary"),
                                      !.tickers = screening.secondary]
    /\ UNCHANGED << tickerVars, listVars, fetchVars, poolVars, configVars, gem, sieve, run, api >>

\* screen_stocks: `if tickers:` _apply_filters, _save_to_cache and _log_results,
\* else the error; then `return tickers`.  CacheManager.save catches a failed
\* write and leaves the file as it was.
ScreenFinish ==
    /\ screening.pc = "finish"
    /\ IF screening.tickers = << >>
       THEN screening' = [screening EXCEPT !.pc = "returned", !.returned = List(<< >>)]
       ELSE \E o \in Orderings(Range(screening.tickers)) : \E written \in BOOLEAN :
              LET ts == ApplyMarketFilters(screening.market_name, screening.exchanges, o)
                  saves == screening.cache_manager /\ ts # << >>
              IN screening' =
                   [screening EXCEPT
                       !.pc = "returned",
                       !.tickers = ts,
                       !.calls = IF saves THEN @ \o << "filter", "save" >>
                                 ELSE Append(@, "filter"),
                       !.saved = IF saves THEN List(ts) ELSE @,
                       !.file = IF saves /\ written THEN List(ts) ELSE @,
                       !.returned = List(ts)]
    /\ UNCHANGED << tickerVars, listVars, fetchVars, poolVars, configVars, gem, sieve, run, api >>

NextScreening ==
    \/ ScreenLoadCache \/ ScreenValidate \/ ScreenPrimary \/ ScreenSecondary
    \/ ScreenFinish

SpecScreening == InitScreening /\ [][NextScreening]_vars

NextFilter == FetchSingle \/ ApplyFilters
NextTech == Analyze \/ TechScore
Next == ScoreStock
NextRank == RankStocksCall \/ FilterByActionCall \/ SelectCall
NextPool == PoolFundamentals \/ PoolTechnicals \/ PoolScore \/ PoolCollect
NextConfig == ResolveConfig \/ BuildScorer \/ ConfigScore
NextGem == FetchSingle \/ GemScore
NextFetch == StartBatch \/ RunFetch \/ CollectFetch \/ EndBatch \/ ReturnFetch

SpecFilter == InitFilter /\ [][NextFilter]_vars
SpecTech == InitTech /\ [][NextTech]_vars
Spec == Init /\ [][Next]_vars
SpecRank == InitRank /\ [][NextRank]_vars
SpecFetch == InitFetch /\ [][NextFetch]_vars
SpecPool == InitPool /\ [][NextPool]_vars
SpecConfig == InitConfig /\ [][NextConfig]_vars
SpecGem == InitFilter /\ [][NextGem]_vars

TypeOK ==
    /\ fetched \in {"pending", "ok", "nodata"}
    /\ analysed \in {"pending", "ok", "nodata"}
    /\ scored \in {"pending", "ok", "nodata"}
    /\ checked \in BOOLEAN
    /\ techScored \in BOOLEAN

-----------------------------------------------------------------------------
(* The pre-filter *)

EarlyOutcomes ==
    {TypeError, "market_cap_too_low", "market_cap_too_high", "volume_too_low"}
GateReasons == {"peg_too_high", "calculated_peg_too_high", "pe_too_high_fallback"}

Present(x) == x.k = "num"

\* the fallback chain as the specification words it: the reason the gate
\* rejects the record with, or NoReason
ClaimedGate(d, f) ==
    IF Present(d.peg_ratio) /\ d.peg_ratio.v > 0
    THEN IF HasKey(f, "peg_ratio_max")
               /\ d.peg_ratio.v * PCT > f.peg_ratio_max * d.peg_ratio.d
         THEN "peg_too_high" ELSE NoReason
    ELSE IF Present(d.pe_ratio) /\ Present(d.earnings_growth)
               /\ d.pe_ratio.v > 0 /\ d.earnings_growth.v > 0
    THEN IF HasKey(f, "peg_ratio_max")
               /\ d.pe_ratio.v * PCT > f.peg_ratio_max * d.earnings_growth.v
         THEN "calculated_peg_too_high" ELSE NoReason
    ELSE IF Present(d.pe_ratio) /\ d.pe_ratio.v > 0
    THEN IF d.pe_ratio.v > FGet(f, "pe_ratio_max_fallback", 2500)
         THEN "pe_too_high_fallback" ELSE NoReason
    ELSE NoReason

\* the checks in the order the specification lists them, each with the reason
\* it reports and whether it fails on the record
ClaimedChecks(d, f) ==
    << [ reason |-> "market_cap_too_low",
         fails |-> Present(d.market_cap)
                       /\ d.market_cap.v < FGet(f, "market_cap_min", 0) ],
       [ reason |-> "market_cap_too_high",
         fails |-> Present(d.market_cap)
                       /\ AboveMax(d.market_cap.v, f, "market_cap_max") ],
       [ reason |-> "volume_too_low",
         fails |-> Present(FilterVolume(d))
                       /\ FilterVolume(d).v < FGet(f, "volume_min", 0) ],
       [ reason |-> "peg_too_high",
         fails |-> ClaimedGate(d, f) = "peg_too_high" ],
       [ reason |-> "calculated_peg_too_high",
         fails |-> ClaimedGate(d, f) = "calculated_peg_too_high" ],
       [ reason |-> "pe_too_high_fallback",
         fails |-> ClaimedGate(d, f) = "pe_too_high_fallback" ],
       [ reason |-> "negative_or_low_earnings",
         fails |-> Present(d.pe_ratio) /\ d.pe_ratio.v < FGet(f, "pe_ratio_min", 0) ],
       [ reason |-> "roe_too_low",
         fails |-> Present(d.roe) /\ d.roe.v < FGet(f, "roe_min", 0) ],
       [ reason |-> "debt_too_high",
         fails |-> Present(d.debt_to_equity)
                       /\ AboveMax(d.debt_to_equity.v, f, "debt_to_equity_max") ],
       [ reason |-> "revenue_growth_too_low",
         fails |-> Present(d.revenue_growth)
                       /\ d.revenue_growth.v < FGet(f, "revenue_growth_min", 0) ],
       [ reason |-> "earnings_growth_too_low",
         fails |-> Present(d.earnings_growth)
                       /\ d.earnings_growth.v < FGet(f, "earnings_growth_min", 0) ],
       [ reason |-> "current_ratio_too_low",
         fails |-> Present(d.current_ratio)
                       /\ d.current_ratio.v < FGet(f, "current_ratio_min", 0) ],
       [ reason |-> "profit_margin_too_low",
         fails |-> Present(d.profit_margin)
                       /\ d.profit_margin.v < FGet(f, "profit_margin_min", 0) ],
       [ reason |-> "operating_margin_too_low",
         fails |-> Present(d.operating_margin)
                       /\ d.operating_margin.v < FGet(f, "operating_margin_min", 0) ],
       [ reason |-> "sector_excluded_" \o d.sector,
         fails |-> d.sector \in FGet(f, "sectors_exclude", {}) ],
       [ reason |-> "sector_not_included",
         fails |-> FGet(f, "sectors_include", {}) # {}
                       /\ d.sector \notin FGet(f, "sectors_include", {}) ] >>

FirstFailing(checks) ==
    IF \E n \in DOMAIN checks : checks[n].fails
    THEN checks[CHOOSE n \in DOMAIN checks :
                    /\ checks[n].fails
                    /\ \A m \in 1..(n - 1) : ~checks[m].fails].reason
    ELSE NoReason

\* C1, as stated: for every record and every filter configuration the
\* pre-filter reports the reason of the first failing check in the fixed order
\* (market cap, volume, valuation gate, minimum P/E, ROE, debt, revenue growth,
\* earnings growth, current ratio, profit margin, operating margin, sector
\* excluded, sector not included), and None exactly when no check fails.
\* Violated: on a record whose market cap or volume is None nothing is reported.
C1_FirstFailingReason ==
    checked => reason = FirstFailing(ClaimedChecks(data, FilterTable(filters)))

\* The order of C1 on the records whose market cap and volume are numbers.
FirstFailingReasonOfNumericRecords ==
    (checked /\ reason # TypeError)
        => reason = FirstFailing(ClaimedChecks(data, FilterTable(filters)))

\* the metrics of a record that are present and break a threshold
NoPresentViolation(d, f) == \A n \in DOMAIN ClaimedChecks(d, f) :
    ~ClaimedChecks(d, f)[n].fails

NoNoneValue(i) == \A key \in MetricKeys : i[key].k # "none"

\* the record as the provider gave it: an absent market cap or volume is unknown
ProviderRecord(i, d) ==
    [d EXCEPT !.market_cap = Get(i, "marketCap"),
              !.volume = Get(i, "volume"),
              !.avg_volume = Get(i, "averageVolume")]

\* C2, as stated: a missing metric never fails the pre-filter, market cap and
\* volume included; a record none of whose present metrics breaks a threshold
\* passes.  Violated: an absent market cap or volume is read as 0 and rejected.
C2_MissingMetricNeverFails ==
    (checked /\ NoNoneValue(info)
        /\ NoPresentViolation(ProviderRecord(info, data), FilterTable(filters)))
        => reason = NoReason

\* C3: the valuation gate follows the fallback chain: PEG when present and
\* positive, else P/E over growth when both are present and positive (the P/E
\* limit is then not consulted), else the P/E limit when P/E is present and
\* positive, else pass.
C3_ValuationGateChain ==
    (checked /\ reason \notin EarlyOutcomes)
        => IF ClaimedGate(data, FilterTable(filters)) # NoReason
           THEN reason = ClaimedGate(data, FilterTable(filters))
           ELSE reason \notin GateReasons

\* a record without a provider PEG passes on its computed PEG although its P/E
\* is above the P/E-only limit
C3_Witness ==
    /\ checked
    /\ reason = NoReason
    /\ filters = "US"
    /\ info["pegRatio"].k = "absent"
    /\ Present(data.pe_ratio) /\ Present(data.earnings_growth)
    /\ data.earnings_growth.v > 0
    /\ data.pe_ratio.v > FGet(FilterTable(filters), "pe_ratio_max_fallback", 2500)
    /\ HasKey(FilterTable(filters), "peg_ratio_max")
    /\ data.pe_ratio.v * PCT
           <= FilterTable(filters).peg_ratio_max * data.earnings_growth.v

-----------------------------------------------------------------------------
(* The sector-relative scores *)

\* the point budgets the specification gives the metrics of each score
ValuationBudget ==
    [ pe_ratio |-> 25, roe |-> 25, debt_to_equity |-> 20, earnings_growth |-> 20,
      profit_margin |-> 10 ]
QualityBudget ==
    [ profit_margin |-> 30, roe |-> 30, debt_to_equity |-> 20, current_ratio |-> 20 ]

ValuationMetric(m, f, b) ==
    CASE m = "pe_ratio" -> ValPE(f, b)
      [] m = "roe" -> ValROE(f, b)
      [] m = "debt_to_equity" -> ValDE(f, b)
      [] m = "earnings_growth" -> ValGrowth(f, b)
      [] OTHER -> ValMargin(f, b)

QualityMetric(m, f, b) ==
    CASE m = "profit_margin" -> QualMargin(f, b)
      [] m = "roe" -> QualROE(f, b)
      [] m = "debt_to_equity" -> QualDE(f, b)
      [] OTHER -> QualCurrent(f, b)

RECURSIVE BudgetOf(_, _)
BudgetOf(budget, metrics) ==
    IF metrics = {} THEN 0
    ELSE LET m == CHOOSE x \in metrics : TRUE
         IN budget[m] + BudgetOf(budget, metrics \ {m})

PresentMetrics(budget, f) == {m \in DOMAIN budget : Present(f[m])}

\* the benchmark score_stock used for the record it returned
UsedBenchmark == GetSectorBenchmark(BenchmarkTable(benchmarks), result.sector)

\* a score 100 * p / m equals the whole number c
ScoreIs(s, c) == 100 * s.p = c * s.m

\* C4: in the valuation and the quality score a metric absent from the input
\* adds nothing to the points achieved nor to the points available, and when
\* every scored metric is absent the score is exactly 50.
C4_AbsentMetricsExcluded ==
    scored = "ok" =>
        LET f == result.fundamentals
            b == UsedBenchmark
        IN /\ \A m \in DOMAIN ValuationBudget :
                  ~Present(f[m]) => ValuationMetric(m, f, b) = << 0, 0 >>
           /\ \A m \in DOMAIN QualityBudget :
                  ~Present(f[m]) => QualityMetric(m, f, b) = << 0, 0 >>
           /\ ValuationPoints(f, b).max_score
                  <= BudgetOf(ValuationBudget, PresentMetrics(ValuationBudget, f))
           /\ QualityPoints(f, b).max_score
                  <= BudgetOf(QualityBudget, PresentMetrics(QualityBudget, f))
           /\ result.valuation_score = ValuationScore(f, b)
           /\ result.fundamental_score = QualityScore(f, b)
           /\ result.valuation_score.m > 0 /\ result.fundamental_score.m > 0
           /\ PresentMetrics(ValuationBudget, f) = {}
                  => ScoreIs(result.valuation_score, 50)
           /\ PresentMetrics(QualityBudget, f) = {}
                  => ScoreIs(result.fundamental_score, 50)

\* a record holding only market cap and volume is scored 50 and 50
C4_Witness ==
    /\ scored = "ok"
    /\ Present(info["marketCap"]) /\ Present(info["volume"])
    /\ PresentMetrics(ValuationBudget, result.fundamentals) = {}
    /\ PresentMetrics(QualityBudget, result.fundamentals) = {}
    /\ ScoreIs(result.valuation_score, 50)
    /\ ScoreIs(result.fundamental_score, 50)

\* the record with the metric m removed
Without(f, m) == [f EXCEPT ![m] = None]

\* |100 * s.p / s.m - 100 * t.p / t.m| <= c, for two scores and a whole number c
ScoresWithin(s, t, c) ==
    /\ 100 * (s.p * t.m - t.p * s.m) <= c * s.m * t.m
    /\ 100 * (t.p * s.m - s.p * t.m) <= c * s.m * t.m

\* C5, as stated: removing one present metric changes the valuation or quality
\* score by no more than the point budget of that metric and never makes the
\* score exactly 0.  Violated: a record whose only scored metric is a P/E in the
\* lowest band scores 20 and, with the P/E removed, 50.
C5_MissingMetricIndependence ==
    scored = "ok" =>
        LET f == result.fundamentals
            b == UsedBenchmark
        IN /\ \A m \in PresentMetrics(ValuationBudget, f) :
                  /\ ScoresWithin(ValuationScore(f, b), ValuationScore(Without(f, m), b),
                                  ValuationBudget[m])
                  /\ ~ScoreIs(ValuationScore(Without(f, m), b), 0)
           /\ \A m \in PresentMetrics(QualityBudget, f) :
                  /\ ScoresWithin(QualityScore(f, b), QualityScore(Without(f, m), b),
                                  QualityBudget[m])
                  /\ ~ScoreIs(QualityScore(Without(f, m), b), 0)

\* the points a metric's removal takes from a score's two accumulators
PointsRemoved(pts, less) ==
    [score |-> pts.score - less.score, max_score |-> pts.max_score - less.max_score]

\* C5, amended: removing one present metric m takes between 0 and budget(m)
\* points from the points achieved and either budget(m) or (when m was not
\* counted) 0 from the points available, never more; the valuation score is
\* never 0, and the quality score is 0 only when a ROE that is not positive is
\* the one metric counted.
C5_RemovalBoundsPoints ==
    scored = "ok" =>
        LET f == result.fundamentals
            b == UsedBenchmark
        IN /\ \A m \in PresentMetrics(ValuationBudget, f) :
                  LET d == PointsRemoved(ValuationPoints(f, b),
                                         ValuationPoints(Without(f, m), b))
                  IN /\ d.max_score \in {0, ValuationBudget[m]}
                     /\ d.score \in 0..d.max_score
                     /\ ~ScoreIs(ValuationScore(Without(f, m), b), 0)
           /\ \A m \in PresentMetrics(QualityBudget, f) :
                  LET d == PointsRemoved(QualityPoints(f, b),
                                         QualityPoints(Without(f, m), b))
                  IN /\ d.max_score \in {0, QualityBudget[m]}
                     /\ d.score \in 0..d.max_score
                     /\ ScoreIs(QualityScore(Without(f, m), b), 0)
                            => /\ Present(Without(f, m).roe)
                               /\ Without(f, m).roe.v <= 0
                               /\ QualityPoints(Without(f, m), b).max_score
                                      = QualityBudget["roe"]
           /\ ~ScoreIs(result.valuation_score, 0)

\* a record whose valuation score moves by more than the budget of the metric
\* removed, and one whose quality score is 0 once the profit margin is removed
C5_Witness ==
    /\ scored = "ok"
    /\ \E m \in PresentMetrics(ValuationBudget, result.fundamentals) :
           ~ScoresWithin(result.valuation_score,
                         ValuationScore(Without(result.fundamentals, m), UsedBenchmark),
                         ValuationBudget[m])
    /\ Present(result.fundamentals.profit_margin)
    /\ ~ScoreIs(result.fundamental_score, 0)
    /\ ScoreIs(QualityScore(Without(result.fundamentals, "profit_margin"),
                            UsedBenchmark), 0)

-----------------------------------------------------------------------------
(* The composite score and the action tier *)

InRange(s) == s.m > 0 /\ 0 <= s.p /\ s.p <= s.m

ConvexWeights(w) ==
    /\ w.growth >= 0 /\ w.profitability >= 0 /\ w.valuation >= 0
    /\ w.growth + w.profitability + w.valuation = 100

\* the three sub-scores of a record over the denominator of its composite
SubScores(r) ==
    { 100 * r.valuation_score.p * r.fundamental_score.m * r.technical_score.m,
      100 * r.fundamental_score.p * r.valuation_score.m * r.technical_score.m,
      100 * r.technical_score.p * r.valuation_score.m * r.fundamental_score.m }

C7_TierFromCompositeOnly ==
    scored = "ok" =>
        LET c == result.composite_score
        IN /\ (c.n >= 75 * c.d) <=> (result.action = "STRONG_BUY")
           /\ (65 * c.d <= c.n /\ c.n < 75 * c.d) <=> (result.action = "BUY")
           /\ (50 * c.d <= c.n /\ c.n < 65 * c.d) <=> (result.action = "SPECULATIVE")
           /\ (c.n < 50 * c.d) <=> (result.action = "AVOID")

\* a STRONG_BUY whose valuation score is below 60, and so below any gate
C7_Witness ==
    /\ scored = "ok"
    /\ result.action = "STRONG_BUY"
    /\ 100 * result.valuation_score.p < 60 * result.valuation_score.m

-----------------------------------------------------------------------------
(* The technical score *)

\* the banding table of the specification
TrendBand(trend) ==
    CASE trend = "strong_uptrend" -> 30
      [] trend = "uptrend" -> 20
      [] trend = "sideways" -> 10
      [] trend \in {"downtrend", "unknown"} -> 0

RsiBand(rsi) ==
    IF ~Present(rsi) THEN 0
    ELSE IF rsi.v >= 4000 /\ rsi.v <= 6000 THEN 20
    ELSE IF (rsi.v >= 3000 /\ rsi.v < 4000) \/ (rsi.v > 6000 /\ rsi.v <= 7000) THEN 15
    ELSE IF rsi.v < 3000 THEN 10
    ELSE 0

\* the band of a percentage r among the descending limits, each with its points
RECURSIVE PercentBand(_, _)
PercentBand(r, bands) ==
    IF ~Present(r) \/ bands = << >> THEN 0
    ELSE IF r.v > Head(bands)[1] * r.d THEN Head(bands)[2]
    ELSE PercentBand(r, Tail(bands))

PriceVsSma50Bands == << << 5, 25 >>, << 0, 20 >>, << -5, 10 >> >>
Return3mBands == << << 20, 25 >>, << 10, 20 >>, << 0, 15 >>, << -10, 5 >> >>

\* C8: get_technical_score awards exactly the points of the banding table
\* (trend 30/20/10/0; RSI 20 in [40,60], 15 in [30,40) and (60,70], 10 below
\* 30, else 0; price against SMA50 25 above 5, 20 above 0, 10 above -5, else 0;
\* 3-month return 25 above 20, 20 above 10, 15 above 0, 5 above -10, else 0),
\* and returns the points achieved over the points available, within [0,100].
C8_BandingTable ==
    (techScored /\ analysed = "ok") =>
        /\ techScore.p = TrendBand(technical.trend) + RsiBand(technical.rsi)
                           + PercentBand(technical.price_vs_sma50, PriceVsSma50Bands)
                           + PercentBand(technical.return_3m, Return3mBands)
        /\ InRange(techScore)
        /\ techScore.m <= 100

\* every indicator on a limit of its band: price 5% above the SMA50, a 3-month
\* return of 20%, RSI 60, in a strong uptrend: 30 + 20 + 20 + 20 of 100
C8_Witness ==
    /\ techScored /\ analysed = "ok"
    /\ technical.trend = "strong_uptrend"
    /\ technical.rsi = Num(6000)
    /\ technical.price_vs_sma50.v = 5 * technical.price_vs_sma50.d
    /\ technical.return_3m.k = "num"
    /\ technical.return_3m.v = 20 * technical.return_3m.d
    /\ techScore = Frac(90, 100)

\* the points available when only the indicators the record defines count
DefinedPoints(t) ==
    (IF t.trend # "unknown" THEN 30 ELSE 0)
        + (IF t.rsi.k # "none" THEN 20 ELSE 0)
        + (IF t.price_vs_sma50.k # "none" THEN 25 ELSE 0)
        + (IF t.return_3m.k # "none" THEN 25 ELSE 0)

\* C9, as stated: an indicator that is missing or undefined (a trend that is
\* 'unknown', an absent RSI, price against SMA50 or 3-month return) is left out
\* of the points available.  Violated: a history of 50 to 199 bars has no
\* SMA200, its trend is 'unknown', and the trend's 30 points stay available.
C9_MissingReducesDenominator ==
    (techScored /\ analysed = "ok" /\ DefinedPoints(technical) > 0)
        => techScore.m = DefinedPoints(technical)

\* C10: a history of fewer than 50 bars gives the 'insufficient data' outcome
\* (no record), and a history of 50 bars or more gives a technical record.
C10_FiftyBars ==
    (analysed # "pending" /\ hist.status = "ok") =>
        /\ hist.n < 50 => (analysed = "nodata" /\ technical = NoTechnical)
        /\ hist.n >= 50 => (analysed = "ok" /\ technical = TechnicalRecord(hist)
                              /\ technical.sma_50.k = "num")

\* exactly 49 bars: no record
C10_Witness ==
    /\ analysed = "nodata"
    /\ hist.status = "ok"
    /\ hist.n = 49

-----------------------------------------------------------------------------
(* Ranking, filtering and selection *)

\* t holds the records of s, each once
IsPermutation(t, s) ==
    /\ Len(t) = Len(s)
    /\ \A i \in 1..Len(s) : \E j \in 1..Len(t) : t[j] = s[i]

NonIncreasing(t, by) ==
    \A i, j \in 1..Len(t) : i < j => GetField(t[i], by) >= GetField(t[j], by)

\* the ticker of a record is its position in the input
KeepsInputOrder(t) ==
    \A i, j \in 1..Len(t) : i < j => t[i].ticker < t[j].ticker

TiesKeepInputOrder(t, by) ==
    \A i, j \in 1..Len(t) :
        i < j /\ GetField(t[i], by) = GetField(t[j], by) => t[i].ticker < t[j].ticker

\* C11: rank_stocks(stocks, by) returns a permutation of its input, sorted
\* non-increasing by the named field, and records with equal values of that
\* field keep their relative input order.
C11_RankStocksStableDescending ==
    call.name = "rank_stocks" =>
        /\ IsPermutation(out, stocks)
        /\ NonIncreasing(out, call.by)
        /\ TiesKeepInputOrder(out, call.by)

\* a ranking that moved a record and left two records of equal key in input order
C11_Witness ==
    /\ call.name = "rank_stocks"
    /\ call.by = "composite_score"
    /\ out # stocks
    /\ \E i, j \in 1..Len(out) :
           /\ i < j
           /\ out[i].composite_score = out[j].composite_score
           /\ out[i].action # out[j].action

\* the records of s whose tier is in the set a, each once, in input order
ExactlyTheTiers(t, s, a) ==
    /\ \A i \in 1..Len(s) :
           Cardinality({j \in 1..Len(t) : t[j] = s[i]})
               = IF s[i].action \in a THEN 1 ELSE 0
    /\ \A j \in 1..Len(t) : \E i \in 1..Len(s) : t[j] = s[i]
    /\ KeepsInputOrder(t)

\* C12: for every list of scored records and every non-empty requested set of
\* action tiers, filter_by_action returns exactly the records whose tier is in
\* the requested set, each once, in their input relative order, and leaves the
\* input list unchanged.
C12_FilterByActionExact ==
    [][ (call'.name = "filter_by_action" /\ call.name = "idle"
             /\ call'.actions.k = "list" /\ call'.actions.v # {})
        => /\ ExactlyTheTiers(out', stocks, call'.actions.v)
           /\ stocks' = stocks ]_vars

\* a filter on two tiers that are not the default ones dropped a record and
\* kept two
C12_Witness ==
    /\ call.name = "filter_by_action"
    /\ call.actions = [k |-> "list", v |-> {"SPECULATIVE", "AVOID"}]
    /\ Len(out) = 2
    /\ Len(stocks) > 2

RecommendationTiers == {"STRONG_BUY", "BUY", "SPECULATIVE"}

\* C13: the selection of the callers (the STRONG_BUY, BUY and SPECULATIVE
\* groups concatenated, ranked by composite score, cut to N) has at most N
\* records, none of tier AVOID, in non-increasing composite order, and every
\* recommendation-tier record left out has a composite score no greater than
\* that of every record kept.
C13_SelectionTopN ==
    call.name = "select" =>
        /\ Len(out) <= call.n
        /\ \A j \in 1..Len(out) : out[j].action # "AVOID"
        /\ NonIncreasing(out, "composite_score")
        /\ \A i \in 1..Len(stocks) :
               (stocks[i].action \in RecommendationTiers
                    /\ \A j \in 1..Len(out) : out[j] # stocks[i])
               => \A j \in 1..Len(out) :
                      stocks[i].composite_score <= out[j].composite_score

\* a selection that left out an AVOID record and a recommendation-tier record,
\* and put a record of a lower tier before one of a higher tier's input place
C13_Witness ==
    /\ call.name = "select"
    /\ call.n = 2
    /\ Len(out) = 2
    /\ \E i \in 1..Len(stocks) : stocks[i].action = "AVOID"
    /\ \E i \in 1..Len(stocks) :
           /\ stocks[i].action \in RecommendationTiers
           /\ \A j \in 1..Len(out) : out[j] # stocks[i]
    /\ out[1].ticker > out[2].ticker

-----------------------------------------------------------------------------
(* Failures inside score_stock *)

\* C14: score_stock produces no record for a ticker whenever its fundamental
\* evaluation or its technical evaluation returns no data or raises: the
\* ticker is dropped, and no record with defaulted or partial scores is
\* returned.
C14_NoRecordWithoutBothEvaluations ==
    (scored # "pending" /\ (~FundamentalsSucceed(info) \/ ~AnalyzeSucceeds(hist)))
        => (scored = "nodata" /\ result = NoResult)

\* the fundamentals were evaluated, the price history was too short, and the
\* ticker was dropped
C14_Witness ==
    /\ scored = "nodata"
    /\ FundamentalsSucceed(info)
    /\ hist.status = "ok"
    /\ hist.n > 0
    /\ hist.n < MinBars

-----------------------------------------------------------------------------
(* The bulk fetch *)

\* the tickers of the list whose fetch yields data
Fetchable == {tickers[p] : p \in {q \in DOMAIN tickers : FetchSucceeds(provider[tickers[q]])}}

\* C15: in the bulk fundamentals fetch, for every list of tickers, every batch
\* size and every subset of tickers whose fetch fails (by an exception or by
\* empty data), all remaining tickers of all batches are still fetched, and the
\* returned mapping holds exactly the tickers whose fetch succeeded; no failure
\* aborts a batch or the run.
C15_FailuresDoNotAbortFetch ==
    /\ fetchPc = "returned" =>
           /\ \A p \in DOMAIN tickers : task[p] = "collected"
           /\ DOMAIN results = Fetchable
           /\ \A t \in DOMAIN results : results[t] = BasicData(provider[t])
    /\ fetchPc # "returned" => ENABLED NextFetch

\* a run of two batches that returned: a ticker of the first batch raised, one
\* had no data, and a ticker of the second batch was fetched
C15_Witness ==
    /\ fetchPc = "returned"
    /\ Len(tickers) = 3
    /\ batchSize = 2
    /\ provider[tickers[1]] = RaisingInfo
    /\ provider[tickers[2]] = EmptyInfo
    /\ provider[tickers[3]] = FullInfo
    /\ DOMAIN results = {tickers[3]}

-----------------------------------------------------------------------------
(* The deep-scoring worker pool *)

Drained == \A p \in DOMAIN work : work[p].pc = "collected"

\* what score_stock returns for the ticker of task p when it runs alone
ScoredAlone(p) ==
    IF ScoreSucceeds(feeds[p].info, feeds[p].hist)
    THEN ScoreRecord(feeds[p].info, feeds[p].hist, BenchmarkTable(benchmarks))
    ELSE NoResult

\* some task can take its next step or be collected.  PoolScore assigns on both
\* branches of its test, so it is enabled whenever a task has its technicals.
PoolCanStep ==
    \/ ENABLED (PoolFundamentals \/ PoolTechnicals \/ PoolCollect)
    \/ \E p \in DOMAIN work : work[p].pc = "technicals"

\* C16: in the deep-scoring worker pool, under every interleaving and
\* completion order of the per-ticker tasks, a task that raises or returns no
\* data is excluded without aborting the others; once the pool has drained,
\* every submitted ticker is accounted for exactly once (scored records plus
\* failed count equals submitted count), and each scored record equals the
\* record that scoring that ticker alone gives.
C16_PoolAccountsForEveryTicker ==
    /\ Drained =>
           /\ Len(analyzed) + failedCount = Len(feeds)
           /\ \A p \in DOMAIN feeds :
                  Cardinality({j \in 1..Len(analyzed) : analyzed[j].ticker = p})
                      = IF ScoredAlone(p) # NoResult THEN 1 ELSE 0
           /\ \A j \in 1..Len(analyzed) :
                  analyzed[j].record = ScoredAlone(analyzed[j].ticker)
    /\ ~Drained => PoolCanStep

\* a drained pool of three tasks: one raised, one had too short a price
\* history, and the third, collected before the task ahead of it had begun,
\* was scored
C16_Witness ==
    /\ Drained
    /\ Len(feeds) = 3
    /\ failedCount = 2
    /\ Len(analyzed) = 1
    /\ analyzed[1].ticker = 3
    /\ feeds[1].info = RaisingInfo
    /\ feeds[2].hist.n = MinBars - 1

-----------------------------------------------------------------------------
(* Failures inside the pre-filter *)

\* C17: no per-ticker failure escapes the pre-filter stage: for every fetched
\* record, including records in which market cap, volume or another numeric
\* field is present but unknown (None), apply_filters classifies the record as
\* a survivor or under a reason, and never raises.
C17_ApplyFiltersNeverRaises ==
    checked => reason # TypeError

-----------------------------------------------------------------------------
(* Configuration errors *)

WeightsSum(b) == b.weights.growth + b.weights.profitability + b.weights.valuation

\* some entry of the table has weights that do not sum to 1.0
HasSkewedWeights(tbl) == \E s \in DOMAIN tbl : WeightsSum(tbl[s]) # 100

\* C18: a sector benchmark table in which some entry's weights (growth,
\* profitability, valuation) do not sum to 1.0 is rejected with a fatal
\* configuration error at config resolution or scorer construction, before any
\* fetching or scoring begins: no scorer is built on it and nothing is scored.
C18_SkewedWeightsRejected ==
    HasSkewedWeights(BenchmarkTable(benchmarks)) =>
        (scorer = "none" /\ scored = "pending")

\* C19: when the filter configuration for market BOTH is built by combining
\* the US and India filter sets, no filter value of one market is overwritten
\* by the other market's value for a key they share: for every key present in
\* both sets with different values, the US value is still retrievable from the
\* combined configuration.
C19_SharedKeysKeepUsValue ==
    (market = "BOTH" /\ config.status = "ok") =>
        \A k \in DOMAIN US_FILTERS \cap DOMAIN INDIA_FILTERS :
            US_FILTERS[k] # INDIA_FILTERS[k] => config.filters[k] = US_FILTERS[k]

-----------------------------------------------------------------------------
(* The gem score *)

\* C20: for every fundamentals record, the gem score computed by
\* _simple_gem_score lies in the range 0 to 10 inclusive.
C20_GemScoreRange ==
    gem.k = "num" => (gem.v >= 0 /\ gem.v <= 10 * PCT)

-----------------------------------------------------------------------------
(* filter_by_action without a list of tiers *)

\* C29: filter_by_action called with no action list or with an empty action
\* list does not return the empty list: it behaves exactly as if the requested
\* set were STRONG_BUY and BUY.
C29_NoActionsMeansBuyTiers ==
    (call.name = "filter_by_action" /\ (call.actions.k = "none" \/ call.actions.v = {}))
        => /\ out = SelectSeq(stocks, LAMBDA x : x.action \in {"STRONG_BUY", "BUY"})
           /\ out = FilterByAction(stocks, [k |-> "list", v |-> {"STRONG_BUY", "BUY"}])

\* a call with an empty list that kept a record and dropped another
C29_Witness ==
    /\ call.name = "filter_by_action"
    /\ call.actions = [k |-> "list", v |-> {}]
    /\ Len(out) > 0
    /\ Len(out) < Len(stocks)

-----------------------------------------------------------------------------
(* C28: in every record score_stock returns, the action tier agrees with the  *)
(* composite score the record stores, the composite rounded to 2 decimals:    *)
(* stored >= 75 iff STRONG_BUY, in [65, 75) iff BUY, in [50, 65) iff           *)
(* SPECULATIVE, below 50 iff AVOID.                                            *)

\* result['composite_score'], in hundredths
StoredComposite(r) == Round2(r.composite_score)

\* the tier the thresholds give the stored composite
StoredTier(r) ==
    IF StoredComposite(r) >= 7500 THEN "STRONG_BUY"
    ELSE IF StoredComposite(r) >= 6500 THEN "BUY"
    ELSE IF StoredComposite(r) >= 5000 THEN "SPECULATIVE"
    ELSE "AVOID"

C28_ActionAgreesWithStoredComposite ==
    scored = "ok" => result.action = StoredTier(result)
-----------------------------------------------------------------------------
(* C23: scoring never takes a metric present with value 0 for an absent one: *)
(* in the valuation and quality scores every scored metric (P/E, ROE,         *)
(* debt/equity, earnings growth, profit margin, current ratio) present with   *)
(* value 0 is counted in the points available and gets the points of its      *)
(* lowest band; only an absent metric is left out.                            *)

IsZero(x) == x.k = "num" /\ x.v = 0

\* the benchmark score_stock used for the record
ResultBenchmark == GetSectorBenchmark(BenchmarkTable(benchmarks), result.sector)

C23_ZeroIsScoredNotSkipped ==
    scored = "ok" =>
        LET f == result.fundamentals
            b == ResultBenchmark
        IN /\ IsZero(f.pe_ratio) => ValPE(f, b)[2] = 25
           /\ IsZero(f.roe) => ValROE(f, b) = << 5, 25 >> /\ QualROE(f, b) = << 0, 30 >>
           /\ IsZero(f.debt_to_equity) => ValDE(f, b)[2] = 20 /\ QualDE(f, b)[2] = 20
           /\ IsZero(f.earnings_growth)
                => ValGrowth(f, b) = << IF b.growth_focused THEN 4 ELSE 8, 20 >>
           /\ IsZero(f.profit_margin)
                => ValMargin(f, b) = << 4, 10 >> /\ QualMargin(f, b) = << 6, 30 >>
           /\ IsZero(f.current_ratio) => QualCurrent(f, b) = << 8, 20 >>
-----------------------------------------------------------------------------
(* C25: the fundamental evaluator returns no data whenever the provider       *)
(* returns an empty or near-empty record (fewer than MinInfoKeys keys), so    *)
(* that a ticker whose record carries almost no fields is dropped rather      *)
(* than scored.                                                               *)

NearEmpty(i) == InfoLen(i) < MinInfoKeys

C25_NearEmptyRecordIsDropped ==
    (scored # "pending" /\ NearEmpty(info))
        => (~FundamentalsSucceed(info) /\ scored = "nodata")
-----------------------------------------------------------------------------
(* C26: after apply_filters has processed a mapping, every input ticker is    *)
(* either in the survivor list or counted exactly once in the rejection       *)
(* histogram under its first failing reason: survivors + sum of the counts =  *)
(* number of input records, and the survivor list follows the iteration       *)
(* order of the mapping.                                                      *)

RECURSIVE SumCounts(_)
SumCounts(failed_reasons) ==
    IF DOMAIN failed_reasons = {} THEN 0
    ELSE LET r == CHOOSE x \in DOMAIN failed_reasons : TRUE
         IN failed_reasons[r]
              + SumCounts([x \in DOMAIN failed_reasons \ {r} |-> failed_reasons[x]])

\* the positions of stocks_data whose record _check_filters answers r for
RecordsWith(r) ==
    { k \in 1..Len(sieve.stocks_data) :
        CheckFilters(sieve.stocks_data[k], FilterTable(filters)) = r }

C26_SurvivorsAndHistogramPartition ==
    sieve.pc = "returned" =>
        /\ Len(sieve.passed) + SumCounts(sieve.failed_reasons) = Len(sieve.stocks_data)
        /\ sieve.passed
             = SelectSeq([k \in 1..Len(sieve.stocks_data) |-> k],
                         LAMBDA k : k \in RecordsWith(NoReason))
        /\ DOMAIN sieve.failed_reasons
             = { r \in EarlyOutcomes \cup GateReasons \cup {"sector_not_included"} :
                   RecordsWith(r) # {} }
        /\ \A r \in DOMAIN sieve.failed_reasons :
               sieve.failed_reasons[r] = Cardinality(RecordsWith(r))

\* a call that returned one survivor and counted one reason twice
C26_Witness ==
    /\ sieve.pc = "returned"
    /\ Len(sieve.passed) = 1
    /\ \E r \in DOMAIN sieve.failed_reasons : sieve.failed_reasons[r] = 2
-----------------------------------------------------------------------------
(* The run of main() *)

\* C30: in a run of main() with market 'BOTH', get_market_config succeeds but
\* create_screener raises the unsupported-market error, so the run ends in the
\* error exit before any ticker-universe fetch, fundamentals fetch or scoring
\* and produces no ranked list; only an unknown market identifier is rejected
\* by get_market_config itself.
C30_BothFailsAtScreenerCreation ==
    /\ market = "BOTH" =>
         /\ run.pc \in {"config", "screener", "exit1"}
         /\ run.pc # "config" => (config = GetMarketConfig("BOTH") /\ config.status = "ok")
         /\ run.all_tickers = << >> /\ run.fetches = 0 /\ run.scorings = 0
         /\ run.top_stocks = << >> /\ ~run.saved
    /\ (market # "BOTH" /\ run.pc = "exit1") => run.fetches > 0
    /\ \A m \in {"US", "INDIA", "BOTH", "EU", "us"} :
           GetMarketConfig(m).status = "ValueError" <=> m \notin {"US", "INDIA", "BOTH"}

\* a run with market 'BOTH' that got its configuration and ended in the error exit
C30_Witness == market = "BOTH" /\ run.pc = "exit1" /\ config.status = "ok"

\* the hidden-gems pass ran in this run
GemsRan == \E k \in 1..Len(run.log) : run.log[k] = "additional hidden gems"

\* the gem score of ticker t, in hundredths
GemScoreOf(t) == SimpleGemScore(BasicData(run.quotes[t].info)).v

\* what the pass does when it runs: it looks only at tickers among the first
\* GemPool survivors of the pre-filter that have no scored record, returns at most
\* MaxResults of them, each with a gem score above 5, in non-increasing order
\* of gem score
GemsPassSound ==
    GemsRan =>
        /\ \A k \in 1..Len(run.filtered_stocks_data) :
               /\ \E p \in 1..GemPool :
                      p <= Len(run.filtered_tickers)
                          /\ run.filtered_tickers[p] = run.filtered_stocks_data[k]
               /\ \A a \in 1..Len(run.analyzed_stocks) :
                      run.analyzed_stocks[a].ticker # run.filtered_stocks_data[k]
        /\ Len(run.gem_tickers) <= MaxResults
        /\ \A k \in 1..Len(run.gem_tickers) :
               /\ \E d \in 1..Len(run.filtered_stocks_data) :
                      run.filtered_stocks_data[d] = run.gem_tickers[k]
               /\ GemScoreOf(run.gem_tickers[k]) > GemFloor
               /\ k > 1 => GemScoreOf(run.gem_tickers[k - 1]) >= GemScoreOf(run.gem_tickers[k])

\* the ranked top-N list is what the selection gives on the scored records alone
TopNUntouched ==
    run.pc \in {"report", "returned"} /\ run.analyzed_stocks # << >>
        => run.top_stocks = SelectTop(run.analyzed_stocks, run.top_n)

\* full scoring has run and main() is past the test that starts the pass
PastSelection == run.scorings > 0 /\ run.pc \in {"rank", "report", "returned"}

\* C21: the hidden-gems pass runs exactly when fewer than 10 recommendation-tier
\* records result from full scoring; it considers only tickers among the first
\* 50 pre-filter survivors that have no scored record, returns at most 10 of
\* them in non-increasing gem-score order, each with gem score > 5, and it does
\* not change the ranked top-N list.
C21_HiddenGemsPass ==
    /\ PastSelection => (GemsRan <=> Len(Recommendations(run.analyzed_stocks)) < GemTrigger)
    /\ GemsPassSound
    /\ TopNUntouched

\* C21, with the trigger stated for the runs in which score_stock returned at
\* least one record: in those the hidden-gems pass runs exactly when fewer than
\* 10 recommendation-tier records result; when it runs it considers only
\* tickers among the first 50 pre-filter survivors without a scored record and
\* returns at most 10 of them, each with gem score > 5, in non-increasing
\* gem-score order; the ranked top-N list is that of the scored records alone.
C21_HiddenGemsPassAfterScoredRecord ==
    /\ (PastSelection /\ run.analyzed_stocks # << >>)
           => (GemsRan <=> Len(Recommendations(run.analyzed_stocks)) < GemTrigger)
    /\ GemsPassSound
    /\ TopNUntouched

\* the pass ran on more than GemPool survivors and returned MaxResults gems,
\* leaving out a candidate that comes before them in the list of survivors
C21_Witness ==
    /\ GemsRan
    /\ Len(run.filtered_tickers) > GemPool
    /\ Len(run.gem_tickers) = MaxResults
    /\ \E d \in 1..Len(run.filtered_stocks_data) :
           /\ run.filtered_stocks_data[d] < run.gem_tickers[1]
           /\ GemScoreOf(run.filtered_stocks_data[d]) > GemFloor

\* the pass returned its gems in an order other than that of the tickers
GemsReordered ==
    /\ GemsRan
    /\ \E k \in 2..Len(run.gem_tickers) : run.gem_tickers[k - 1] > run.gem_tickers[k]

\* ten or more recommendation-tier records, and the pass did not run
GemsNotNeeded ==
    /\ PastSelection
    /\ ~GemsRan
    /\ Len(run.all_recommendation_stocks) >= GemTrigger

-----------------------------------------------------------------------------
(* Runs that come to nothing *)

\* what main() logs when a stage leaves nothing
StageMessages ==
    { "No stocks found in initial screening", "Failed to fetch fundamental data",
      "No stocks passed filters", "No stocks successfully analyzed",
      "No stocks meet the recommendation criteria" }

\* main() returned and some stage (ticker universe, bulk fetch, pre-filter,
\* deep scoring, tier selection) had left nothing
CameToNothing == run.pc = "returned" /\ run.all_recommendation_stocks = << >>

\* a stage message was logged, the ranked list is empty and nothing was saved
EmptyAndDiagnosed ==
    /\ \E k \in 1..Len(run.log) : run.log[k] \in StageMessages
    /\ run.top_stocks = << >>
    /\ ~run.saved

\* the run did not end in the error exit after a stage had left nothing
NoErrorExitAfterNothing ==
    (run.pc = "exit1" /\ run.analyzed_stocks # << >>)
        => run.all_recommendation_stocks # << >>

\* C22: a run in which some funnel stage (ticker universe, bulk fetch,
\* pre-filter, deep scoring, tier selection) leaves zero survivors is not an
\* error: it terminates normally without raising, runs no later fetching or
\* scoring stage, and produces an empty ranked list together with a diagnostic
\* summary naming the stage that eliminated everything.
C22_ZeroSurvivorsEndsQuietly ==
    /\ NoErrorExitAfterNothing
    /\ CameToNothing =>
         /\ EmptyAndDiagnosed
         /\ run.fetches = Len(run.all_tickers)
         /\ run.scorings = Len(run.tickers_to_analyze)

\* C22, with the hidden-gems pass allowed for: when tier selection leaves
\* nothing the pass still runs and fetches the pre-filter survivors that have
\* no scored record; in every other case no fetch or scoring follows the stage
\* that left nothing.  In all cases the run returns without raising, with an
\* empty ranked list, nothing saved and the message of the stage logged.
C22_ZeroSurvivorsThenOnlyGemsPass ==
    /\ NoErrorExitAfterNothing
    /\ CameToNothing =>
         /\ EmptyAndDiagnosed
         /\ run.scorings = Len(run.tickers_to_analyze)
         /\ IF run.analyzed_stocks = << >>
            THEN run.fetches = Len(run.all_tickers) /\ ~GemsRan
            ELSE /\ GemsRan
                 /\ run.fetches = Len(run.all_tickers)
                        + Cardinality({ p \in 1..Len(run.filtered_tickers) :
                              /\ p <= GemPool
                              /\ \A a \in 1..Len(run.analyzed_stocks) :
                                     run.analyzed_stocks[a].ticker
                                         # run.filtered_tickers[p] })

\* tier selection left nothing, and the hidden-gems pass went back to the
\* provider before the run returned with an empty ranked list
C22_Witness ==
    /\ CameToNothing
    /\ run.analyzed_stocks # << >>
    /\ run.fetches > Len(run.all_tickers)

-----------------------------------------------------------------------------
(* C24 *)

\* the page of request k was answered with quotes by request k or a later one
PageObtained(k) ==
    \E j \in k..Len(api.posted) :
        /\ api.posted[j].offset = api.posted[k].offset
        /\ api.posted[j].status \in {"200 full", "200 short"}

\* request k was answered 429 and the client went on to a later page
MovedPast(k) ==
    /\ api.posted[k].status = "429"
    /\ \E j \in (k + 1)..Len(api.posted) : api.posted[j].offset > api.posted[k].offset

\* C24: when a screening request is answered 429 the client waits and sends
\* that same request again, so the client never goes on to a later page while
\* a rate-limited page has not been obtained
C24_RateLimitedPageIsRetried ==
    \A k \in 1..Len(api.posted) : MovedPast(k) => PageObtained(k)

\* the first page was answered 429 and the second page was requested and kept
C24_PageSkipped ==
    /\ api.pc = "returned"
    /\ Len(api.posted) >= 2
    /\ api.posted[1] = [offset |-> 0, status |-> "429"]
    /\ api.posted[2] = [offset |-> 1, status |-> "200 full"]
    /\ api.returned = {1}

\* every offset is requested at most once: no request is sent again
C24_NoRequestIsRepeated ==
    \A j, k \in 1..Len(api.posted) : j < k => api.posted[j].offset < api.posted[k].offset

-----------------------------------------------------------------------------
(* C27 *)

IsNonEmptyList(l) == l.k = "list" /\ l.v # << >>

HasNoRepeat(s) == \A j, k \in 1..Len(s) : j # k => s[j] # s[k]

SymbolsOf(s) == { s[k].symbol : k \in 1..Len(s) }

\* the calls screen_stocks makes before it looks at the filters
CacheLook == IF screening.use_cache THEN << "load" >> ELSE << >>

\* the list a source gave came back without repeats and was handed to the
\* cache when there is one; a cache that was looked at holds it, or, where the
\* write failed, still holds no usable list
PostFilteredAndSaved(source) ==
    /\ IsNonEmptyList(screening.returned)
    /\ HasNoRepeat(screening.returned.v)
    /\ SymbolsOf(screening.returned.v) = SymbolsOf(source)
    /\ screening.saved = IF screening.cache_manager THEN screening.returned ELSE NoList
    /\ (screening.cache_manager /\ screening.use_cache) =>
           screening.file = screening.saved \/ ~IsNonEmptyList(screening.file)

\* nothing was handed to the cache
NothingSaved == screening.saved = NoList /\ "save" \notin Range(screening.calls)

\* the ways through screen_stocks, by the calls made
ReturnedFromCache ==
    /\ screening.calls = << "load" >>
    /\ screening.use_cache /\ screening.cache_manager
    /\ IsNonEmptyList(screening.file)
    /\ screening.returned = screening.file
    /\ NothingSaved

ReturnedOnInvalidFilters ==
    /\ screening.calls = CacheLook \o << "validate" >>
    /\ ~screening.filters_valid
    /\ screening.returned = List(<< >>)
    /\ NothingSaved

ReturnedPrimary ==
    /\ screening.calls \in { CacheLook \o << "validate", "primary", "filter" >>,
                             CacheLook \o << "validate", "primary", "filter", "save" >> }
    /\ screening.filters_valid
    /\ screening.primary # << >>
    /\ PostFilteredAndSaved(screening.primary)

ReturnedSecondary ==
    /\ screening.calls \in
           { CacheLook \o << "validate", "primary", "secondary", "filter" >>,
             CacheLook \o << "validate", "primary", "secondary", "filter", "save" >> }
    /\ screening.filters_valid
    /\ screening.primary = << >> /\ screening.secondary # << >>
    /\ PostFilteredAndSaved(screening.secondary)

ReturnedNothing ==
    /\ screening.calls = CacheLook \o << "validate", "primary", "secondary" >>
    /\ screening.filters_valid
    /\ screening.primary = << >> /\ screening.secondary = << >>
    /\ screening.returned = List(<< >>)
    /\ NothingSaved

\* C27: screen_stocks follows the template in order.  A non-empty cached list
\* read with use_cache is returned with no other call; past the cache look
\* there was no such list; invalid filters give [] with no fetch; the
\* secondary source is asked only when the primary gave nothing; only a
\* non-empty result is de-duplicated, post-filtered and handed to the cache
\* and an empty result is never saved
C27_ScreenStocksFollowsTemplate ==
    /\ (screening.pc \in {"validate", "primary", "secondary", "finish"}
            /\ screening.use_cache /\ screening.cache_manager)
          => ~IsNonEmptyList(screening.file)
    /\ screening.pc = "returned" =>
          \/ ReturnedFromCache
          \/ ReturnedOnInvalidFilters
          \/ ReturnedPrimary
          \/ ReturnedSecondary
          \/ ReturnedNothing

\* the primary source gave nothing, the secondary gave a list with a repeat,
\* and the cache, which held no usable list, was written
C27_Witness ==
    /\ screening.pc = "returned"
    /\ screening.use_cache /\ screening.cache_manager
    /\ screening.primary = << >>
    /\ Len(screening.secondary) = 3
    /\ Len(screening.returned.v) = 2
    /\ screening.calls = << "load", "validate", "primary", "secondary", "filter", "save" >>
    /\ screening.file = screening.returned

\* a cached list was returned and no source was asked
C27_CacheHit == screening.pc = "returned" /\ ReturnedFromCache

\* a screener for BSE alone returned tickers of the .BO suffix
C27_ConvertedToBSE ==
    /\ screening.pc = "returned"
    /\ IsNonEmptyList(screening.returned)
    /\ screening.returned.v[1].suffix = << ".BO" >>
    /\ "filter" \in Range(screening.calls)

=============================================================================
